---- MODULE Spec2Model ----
(***************************************************************************)
(* dns-intel: the session HTTP transport (transport/http.ts, session       *)
(* variant), the stateless JSON-RPC dispatcher and the SDK tool-call       *)
(* handler of server.ts, as state machines.                                *)
(*                                                                         *)
(* Spec     the session transport: the module-level session table, /mcp    *)
(*          requests interleaved at their awaits, transport close events,  *)
(*          start() and stop().                                            *)
(* SpecRpc  the JSON-RPC dispatcher behind the stateless POST /mcp and the *)
(*          CallTool handler registered on the SDK server.                 *)
(* SpecHttp the 'request' listener of each transport/http.ts (session,     *)
(*          stateless, and the probes-only one beside stdio): routing by   *)
(*          method and path, the health and readiness probes, and the      *)
(*          requests routed to /mcp, interleaved at their awaits.          *)
(* SpecTool the tool adapters rdapLookup, dnsQuery and ctSearch: input     *)
(*          validation, the pagination cursor of ct_search, the outbound   *)
(*          fetch raced against its timeout timer, and the envelope each   *)
(*          call resolves to.                                              *)
(* SpecCreate the session listener with each of its routes and with a      *)
(*          session creation that fails: the factory throws, or            *)
(*          server.connect rejects.                                        *)
(***************************************************************************)
EXTENDS Integers, Sequences, FiniteSets, TLC

\* Number of /mcp requests the session transport receives in one run.
MaxReqs == 2
\* Number of stop() calls in one run.
MaxStops == 1
\* Number of JSON-RPC exchanges in flight at once.
MaxRpc == 1
\* Number of HTTP requests the stateless listener receives in one run.
MaxWeb == 2

VARIABLES
  sessions,         \* the Map sessionId -> {transport, server}, in insertion order
  nextUuid,         \* the next value randomUUID() returns
  createMcpServer,  \* whether options.createMcpServer is configured
  listener,         \* the http.Server: "created", "listening", "closing", "closed"
  req,              \* one record per /mcp request: its locals and its position
  onclose,          \* per transport: the sessionId its onclose callback deletes, 0 if unset
  closeCount,       \* per server instance: how many times stop() called close() on it
  closedPairs,      \* transports whose onclose callback has run
  stops,            \* number of stop() calls made
  stopLog,          \* what stop() saw: the pairs in the table, whether a close()
                    \* rejected, the table when httpServer.close() was called
  rpc,              \* one record per JSON-RPC exchange: request, adapter call, response
  variant,          \* the transport/http.ts deployed: "session", "stateless"
                    \* or "probes" (health and readiness only)
  onHealthCheck,    \* whether options.onHealthCheck is configured
  call              \* the adapter call in progress: its locals, its timer, its envelope

sessVars == <<sessions, nextUuid, createMcpServer, listener, req, onclose,
              closeCount, closedPairs, stops, stopLog>>
rpcVars == <<rpc>>
webVars == <<variant, onHealthCheck>>
toolVars == <<call>>
vars == <<sessVars, rpcVars, webVars, toolVars>>

\* The ids whose onclose callback has run.
closedIds == {onclose[p] : p \in closedPairs}

Reqs == 1..MaxReqs

\* A transport+server pair is named by the request that created it.
Pairs == Reqs

\* Values of the mcp-session-id header: 0 is "no header", UnknownId is an id
\* randomUUID never returns, and the others are the ids returned so far
\* (of sessions still in the table, or removed from it).
NoHeader == 0
UnknownId == MaxReqs + 1
HeaderIds == {NoHeader, UnknownId} \cup (1..(nextUuid - 1))

\* The transport itself tells no methods apart; the SDK transport it delegates
\* to treats DELETE as the teardown and answers the others.
Methods == {"POST", "DELETE"}

-----------------------------------------------------------------------------
\* The Map operations the transport uses.

\* sessions.get(k): the index of the entry under k, 0 when there is none.
MapGet(tbl, k) ==
  IF \E i \in 1..Len(tbl) : tbl[i].id = k
  THEN CHOOSE i \in 1..Len(tbl) : tbl[i].id = k
  ELSE 0

\* sessions.set(k, v): replaces the value of an existing key in place,
\* appends a new key.
MapSet(tbl, k, v) ==
  IF MapGet(tbl, k) # 0
  THEN [tbl EXCEPT ![MapGet(tbl, k)].pair = v]
  ELSE Append(tbl, [id |-> k, pair |-> v])

\* sessions.delete(k)
MapDelete(tbl, k) == SelectSeq(tbl, LAMBDA e : e.id # k)

Keys(tbl) == {tbl[i].id : i \in 1..Len(tbl)}
PairsIn(tbl) == {tbl[i].pair : i \in 1..Len(tbl)}

-----------------------------------------------------------------------------
\* Writing a response: the headers a response leaves with, and how many
\* responses a request has got.

CorsHeader == "Access-Control-Allow-Origin: *"
JsonContentType == "Content-Type: application/json"

SendJsonHeadersContentOnly == {JsonContentType, "Content-Length"}

\* The headers sendJson passes to res.writeHead (stateless variant).
SendJsonHeaders ==
  {JsonContentType, "Content-Length", CorsHeader,
   "Access-Control-Allow-Methods: GET, POST, OPTIONS",
   "Access-Control-Allow-Headers: Content-Type"}

\* The headers of the 204 the stateless listener writes for OPTIONS.
PreflightHeaders ==
  {CorsHeader, "Access-Control-Allow-Methods: GET, POST, OPTIONS",
   "Access-Control-Allow-Headers: Content-Type"}

\* The headers the session listener sets with res.setHeader before anything
\* else.
SessionListenerHeaders ==
  {CorsHeader, "Access-Control-Allow-Methods: GET, POST, DELETE, OPTIONS",
   "Access-Control-Allow-Headers: Content-Type, mcp-session-id"}

\* res.writeHead(status, hs); res.end(body): the response leaves with the
\* headers set on res so far and hs.
Write(slot, hs) ==
  [slot EXCEPT !.headers = @ \cup hs, !.writes = @ + 1]

-----------------------------------------------------------------------------
\* handleMcpRequest, session variant.

\* let session = sessionId ? sessions.get(sessionId) : undefined
Lookup(tbl, h) == IF h = NoHeader THEN 0 ELSE MapGet(tbl, h)

\* if (!createMcpServer)
SessionFactoryMissingNever(cfg) == FALSE

SessionFactoryMissing(cfg) == ~cfg

\* sessionId = randomUUID(): a new id whatever the header said.
NewSessionIdFromHeader(h, uuid) == IF h # NoHeader THEN h ELSE uuid

NewSessionId(h, uuid) == uuid

IdleReq ==
  [pc |-> "idle", method |-> "none", hdr |-> NoHeader, sessionId |-> NoHeader,
   pair |-> 0, found |-> FALSE, early |-> FALSE, stale |-> FALSE,
   created |-> FALSE, fresh |-> FALSE, delta |-> 0, usedClosed |-> FALSE,
   status |-> 0, body |-> "none", path |-> "none", healthCalled |-> FALSE,
   headers |-> {}, writes |-> 0, outcome |-> "none", reported |-> NoHeader]

\* Lines 39-57 and 69 up to the first await: the lookup, then either the 503,
\* or the creation up to "await server.connect", or the delegation of a
\* request that found its session.
HandleMcpRequest(r, m, h) ==
  /\ listener \in {"listening", "closing"}
  /\ req[r].pc = "idle"
  /\ \A q \in Reqs : q < r => req[q].pc # "idle"
  /\ LET i == Lookup(sessions, h)
         base == [IdleReq EXCEPT !.method = m, !.path = "/mcp", !.hdr = h,
                                 !.sessionId = h,
                                 !.headers = SessionListenerHeaders,
                                 !.stale = (h \in closedIds)]
     IN
     IF i # 0
     THEN \* session found: straight to session.transport.handleRequest
          /\ req' = [req EXCEPT ![r] =
                [base EXCEPT !.pc = "handling", !.pair = sessions[i].pair,
                             !.found = TRUE,
                             !.early = (req[sessions[i].pair].pc = "connecting"),
                             !.usedClosed = (sessions[i].pair \in closedPairs)]]
          /\ UNCHANGED <<sessions, nextUuid>>
     ELSE IF SessionFactoryMissing(createMcpServer)
     THEN /\ req' = [req EXCEPT ![r] =
                Write([base EXCEPT !.pc = "done", !.status = 503,
                                   !.body = "MCP server not configured"],
                      {JsonContentType})]
          /\ UNCHANGED <<sessions, nextUuid>>
     ELSE LET sid == NewSessionId(h, nextUuid)
              tbl == MapSet(sessions, sid, r)
          IN
          /\ sessions' = tbl
          /\ nextUuid' = nextUuid + 1
          /\ req' = [req EXCEPT ![r] =
                [base EXCEPT !.pc = "connecting", !.sessionId = sid, !.pair = r,
                             !.created = TRUE,
                             !.fresh = (sid \notin Keys(sessions)
                                        /\ sid \notin closedIds
                                        /\ \A q \in Reqs : req[q].created
                                               => req[q].sessionId # sid),
                             !.delta = Len(tbl) - Len(sessions)]]
  /\ UNCHANGED <<createMcpServer, listener, onclose, closeCount, closedPairs, stops, stopLog>>
  /\ UNCHANGED <<rpcVars, webVars, toolVars>>

\* Lines 50-54: the session is absent and the factory is configured, the id
\* is drawn and the transport built, and createMcpServer() throws: the
\* handler rejects before sessions.set, and the listener, which awaits it
\* without a try, writes nothing.
CreateMcpServerThrows(r, m, h) ==
  /\ listener \in {"listening", "closing"}
  /\ req[r].pc = "idle"
  /\ \A q \in Reqs : q < r => req[q].pc # "idle"
  /\ Lookup(sessions, h) = 0
  /\ ~SessionFactoryMissing(createMcpServer)
  /\ nextUuid' = nextUuid + 1
  /\ req' = [req EXCEPT ![r] =
        [IdleReq EXCEPT !.method = m, !.path = "/mcp", !.hdr = h,
                        !.sessionId = NewSessionId(h, nextUuid),
                        !.headers = SessionListenerHeaders,
                        !.stale = (h \in closedIds),
                        !.pc = "rejected", !.outcome = "factory threw"]]
  /\ UNCHANGED <<sessions, createMcpServer, listener, onclose, closeCount,
                 closedPairs, stops, stopLog>>
  /\ UNCHANGED <<rpcVars, webVars, toolVars>>

\* Line 60: server.connect rejects. The handler rejects with the session
\* stored at line 57 and no close callback installed; nothing is written.
ConnectRejected(r) ==
  /\ req[r].pc = "connecting"
  /\ req' = [req EXCEPT ![r].pc = "rejected", ![r].outcome = "connect rejected"]
  /\ UNCHANGED <<sessions, nextUuid, createMcpServer, listener, onclose,
                 closeCount, closedPairs, stops, stopLog>>
  /\ UNCHANGED <<rpcVars, webVars, toolVars>>

\* Lines 60-69: server.connect resolved; the close callback is installed and
\* the request is handed to the transport.
ConnectResolved(r) ==
  /\ req[r].pc = "connecting"
  /\ onclose' = [onclose EXCEPT ![req[r].pair] = req[r].sessionId]
  /\ req' = [req EXCEPT ![r].pc = "handling",
                        ![r].usedClosed = (req[r].pair \in closedPairs)]
  /\ UNCHANGED <<sessions, nextUuid, createMcpServer, listener, closeCount,
                 closedPairs, stops, stopLog>>
  /\ UNCHANGED <<rpcVars, webVars, toolVars>>

OncloseTableNoDelete(tbl, p) == tbl

OncloseTableClearsAll(tbl, p) == <<>>

\* transport.onclose = () => { sessions.delete(sessionId) }
OncloseTable(tbl, p) ==
  IF onclose[p] # 0 THEN MapDelete(tbl, onclose[p]) ELSE tbl

\* A close event of transport p: its onclose callback runs.
TransportOnclose(p) ==
  /\ onclose[p] # 0
  /\ sessions' = OncloseTable(sessions, p)
  /\ closedPairs' = closedPairs \cup {p}
  /\ UNCHANGED <<nextUuid, createMcpServer, listener, req, onclose, closeCount,
                 stops, stopLog>>
  /\ UNCHANGED <<rpcVars, webVars, toolVars>>

\* sessionIdGenerator: () => sessionId!
sessionIdGeneratorFresh(sessionId, uuid) == uuid
sessionIdGenerator(sessionId, uuid) == sessionId

\* The mcp-session-id header of the SDK transport's response: the value of
\* its generator, on the response to the request that initialized it.
McpSessionIdHeader(slot) ==
  IF slot.created THEN sessionIdGenerator(slot.sessionId, nextUuid) ELSE NoHeader

\* session.transport.handleRequest(req, res) of the SDK transport: it answers
\* the request; a DELETE closes the transport, which runs the onclose callback
\* the transport holds at that moment (none while the creator is still
\* awaiting server.connect).
TransportHandleRequest(r) ==
  /\ req[r].pc = "handling"
  /\ req' = [req EXCEPT ![r] =
        Write([req[r] EXCEPT !.pc = "done", !.status = 200,
                             !.body = "transport",
                             !.reported = McpSessionIdHeader(req[r])], {})]
  /\ IF req[r].method = "DELETE" /\ onclose[req[r].pair] # 0
     THEN /\ sessions' = OncloseTable(sessions, req[r].pair)
          /\ closedPairs' = closedPairs \cup {req[r].pair}
     ELSE UNCHANGED <<sessions, closedPairs>>
  /\ UNCHANGED <<nextUuid, createMcpServer, listener, onclose, closeCount,
                 stops, stopLog>>
  /\ UNCHANGED <<rpcVars, webVars, toolVars>>

-----------------------------------------------------------------------------
\* createHttpTransport: start() and stop().

Start ==
  /\ listener = "created"
  /\ listener' = "listening"
  /\ UNCHANGED <<sessions, nextUuid, createMcpServer, req, onclose, closeCount,
                 closedPairs, stops, stopLog>>
  /\ UNCHANGED <<rpcVars, webVars, toolVars>>

\* The sweep of stop(): for each entry of the table, in order,
\* session.server.close().catch(() => {}) and sessions.delete(sessionId).
\* failing is the set of server instances whose close() rejects.
\* Result: the table left and the sequence of pairs close() was called on.
RECURSIVE CloseAllFrom(_, _, _, _)
CloseAllFrom(todo, tbl, closed, failing) ==
  IF todo = <<>>
  THEN [table |-> tbl, closed |-> closed]
  ELSE CloseAllFrom(Tail(todo), MapDelete(tbl, Head(todo).id),
                    Append(closed, Head(todo).pair), failing)

RECURSIVE CloseAllAbortFrom(_, _, _, _)
CloseAllAbortFrom(todo, tbl, closed, failing) ==
  IF todo = <<>>
  THEN [table |-> tbl, closed |-> closed]
  ELSE IF Head(todo).pair \in failing
  THEN [table |-> tbl, closed |-> Append(closed, Head(todo).pair)]
  ELSE CloseAllAbortFrom(Tail(todo), MapDelete(tbl, Head(todo).id),
                         Append(closed, Head(todo).pair), failing)

CloseAllAbortOnFailure(tbl, failing) == CloseAllAbortFrom(tbl, tbl, <<>>, failing)

CloseAll(tbl, failing) == CloseAllFrom(tbl, tbl, <<>>, failing)

Count(seq, x) == Cardinality({i \in 1..Len(seq) : seq[i] = x})

\* stop(): the sweep, then httpServer.close(cb). A server that is not
\* listening reports the error through cb and stays as it is.
Stop(failing) ==
  /\ stops < MaxStops
  /\ failing \subseteq PairsIn(sessions)
  /\ LET res == CloseAll(sessions, failing) IN
     /\ sessions' = res.table
     /\ closeCount' = [p \in Pairs |-> closeCount[p] + Count(res.closed, p)]
     /\ stopLog' = [before  |-> stopLog.before \cup PairsIn(sessions),
                    failed  |-> stopLog.failed \/ failing # {},
                    atClose |-> res.table]
  /\ stops' = stops + 1
  /\ listener' = IF listener = "listening" THEN "closing" ELSE listener
  /\ UNCHANGED <<nextUuid, createMcpServer, req, onclose, closedPairs>>
  /\ UNCHANGED <<rpcVars, webVars, toolVars>>

\* The listener's close completes (the callback of httpServer.close runs).
ListenerClosed ==
  /\ listener = "closing"
  /\ listener' = "closed"
  /\ UNCHANGED <<sessions, nextUuid, createMcpServer, req, onclose, closeCount,
                 closedPairs, stops, stopLog>>
  /\ UNCHANGED <<rpcVars, webVars, toolVars>>

-----------------------------------------------------------------------------
\* The JSON-RPC layer: handleJsonRpcRequest and the stateless POST /mcp
\* (stateless transport/http.ts), and the CallTool handler of createServer.

RpcSlots == 1..MaxRpc
WebSlots == 1..MaxWeb
AllSlots == RpcSlots \cup WebSlots

\* JSON values are written as their JSON text; "absent" is a missing member.
JsonRpcVersions == {"2.0", "1.0", "absent"}
RequestIds == {"absent", "0", "7", "''", "'a'"}
\* "absent" is a request without a method member; "TOOLS/LIST" differs from a
\* served method by case only.
RpcMethods == {"initialize", "tools/list", "tools/call", "bogus", "TOOLS/LIST",
               "absent"}
RequestedNames == {"rdap_lookup", "dns_query", "ct_search", "bogus", "absent"}
\* The SDK server hands its handlers only requests with an id and a name.
SdkRequestIds == RequestIds \ {"absent"}
SdkRequestedNames == RequestedNames \ {"absent"}
\* params.arguments of a tools/call: an object, or not there (as when params
\* is not there).
ArgumentsGiven == {"object", "absent"}

\* allToolDefinitions, by name, in registration order.
allToolDefinitionsSorted == <<"ct_search", "dns_query", "rdap_lookup">>

allToolDefinitions == <<"rdap_lookup", "dns_query", "ct_search">>
ToolNames == {allToolDefinitions[i] : i \in 1..Len(allToolDefinitions)}

\* type ErrorCode
ErrorCodes == {"INVALID_INPUT", "UPSTREAM_ERROR", "RATE_LIMITED", "TIMEOUT",
               "PARSE_ERROR", "INTERNAL_ERROR"}

\* What awaiting an adapter can give: an envelope (ok, or an error with one of
\* the codes), a rejection (with an Error, whose message is kept in code, or
\* with a value that is not an Error), or a value JSON.stringify cannot
\* serialize.
AdapterOutcomes ==
  {[kind |-> "ok", code |-> "none"]}
    \cup {[kind |-> "err", code |-> c] : c \in ErrorCodes}
    \cup {[kind |-> "throws", code |-> "socket hang up"],
          [kind |-> "throws", code |-> "not an Error"],
          [kind |-> "circular", code |-> "none"]}

NoOutcome == [kind |-> "none", code |-> "none"]

\* JSON.stringify(envelope, null, 2), as the sequence of its members.
Stringify(o) ==
  IF o.kind = "ok"
  THEN <<"{", "ok", "true", "data", "meta", "}">>
  ELSE <<"{", "ok", "false", "error", "code", o.code, "message", "details",
         "meta", "retrieved_at", "}">>

\* `${x}` of a possibly undefined value.
Interpolate(x) == IF x = "absent" THEN "undefined" ELSE x

NoResult == [kind |-> "none", content |-> <<>>]

\* What the dispatcher's promise settles to: a response object, or a throw.
Response(id, result) ==
  [threw |-> FALSE, jsonrpc |-> "2.0", id |-> id, hasResult |-> TRUE,
   hasError |-> FALSE, code |-> 0, msg |-> <<>>, result |-> result]

ErrorResponse(id, code, msg) ==
  [threw |-> FALSE, jsonrpc |-> "2.0", id |-> id, hasResult |-> FALSE,
   hasError |-> TRUE, code |-> code, msg |-> msg, result |-> NoResult]

Thrown ==
  [threw |-> TRUE, jsonrpc |-> "none", id |-> "absent", hasResult |-> FALSE,
   hasError |-> FALSE, code |-> 0, msg |-> <<>>, result |-> NoResult]

NoResponse ==
  [threw |-> FALSE, jsonrpc |-> "none", id |-> "absent", hasResult |-> FALSE,
   hasError |-> FALSE, code |-> 0, msg |-> <<>>, result |-> NoResult]

\* case 'initialize'
InitializeResponse(id) ==
  Response(id, [kind |-> "initialize", content |-> <<"dns-intel", "1.0.0">>])

\* case 'tools/list'
ToolsListResponse(id) ==
  Response(id, [kind |-> "tools", content |-> allToolDefinitions])

\* switch (toolName): the adapter the call goes to, "none" in the default case.
AdapterFor(name) == IF name \in ToolNames THEN name ELSE "none"

\* The default case of switch (toolName).
UnknownToolResponse(id, name) ==
  ErrorResponse(id, -32601, <<"Unknown tool: ", Interpolate(name)>>)

\* The default case of switch (method).
MethodNotFoundResponse(id, method) ==
  ErrorResponse(id, -32601, <<"Method not found: ", Interpolate(method)>>)

\* error instanceof Error ? error.message : 'Unknown error'
ExceptionMessage(o) ==
  IF o.kind = "circular" THEN "Converting circular structure to JSON"
  ELSE IF o.code = "not an Error" THEN "Unknown error"
  ELSE o.code

InternalErrorResponseNoMessage(id, message) ==
  ErrorResponse(id, -32603, <<"Internal error: ", "Unknown error">>)

\* catch (error): code -32603 with the exception's message.
InternalErrorResponse(id, message) ==
  ErrorResponse(id, -32603, <<"Internal error: ", message>>)

\* { content: [{ type: 'text', text: JSON.stringify(result, null, 2) }] }
ToolContent(o) ==
  [kind |-> "content", content |-> <<[type |-> "text", text |-> Stringify(o)]>>]

ToolCallResponseNoCatch(id, o) ==
  IF o.kind \in {"throws", "circular"} THEN Thrown ELSE Response(id, ToolContent(o))

ToolCallResponsePromotesFailure(id, o) ==
  IF o.kind \in {"throws", "circular"}
  THEN InternalErrorResponse(id, ExceptionMessage(o))
  ELSE IF o.kind = "err" THEN InternalErrorResponse(id, o.code)
  ELSE Response(id, ToolContent(o))

\* The response built with the id of another request suspended on its adapter,
\* when there is one.
ToolCallResponseSharedId(id, o) ==
  LET others == {q \in DOMAIN rpc : rpc[q].pc = "awaiting"
                                     /\ rpc[q].request.id # id}
      shared == IF others = {} THEN id
                ELSE rpc[CHOOSE q \in others : TRUE].request.id
  IN
  IF o.kind \in {"throws", "circular"}
  THEN InternalErrorResponse(shared, ExceptionMessage(o))
  ELSE Response(shared, ToolContent(o))

\* tools/call of a registered tool once the awaited adapter has settled:
\* a rejection, or JSON.stringify throwing, lands in the catch; any envelope
\* is wrapped as the result.
ToolCallResponse(id, o) ==
  IF o.kind \in {"throws", "circular"}
  THEN InternalErrorResponse(id, ExceptionMessage(o))
  ELSE Response(id, ToolContent(o))

\* A dispatcher that serves tools/list and tools/call only once an initialize
\* has been answered.
DispatchNowNeedsInitialize(request) ==
  IF /\ request.method \in {"tools/list", "tools/call"}
     /\ ~\E q \in DOMAIN rpc : /\ rpc[q].pc = "done"
                                /\ rpc[q].request.method = "initialize"
  THEN ErrorResponse(request.id, -32002, <<"Server not initialized">>)
  ELSE CASE request.method = "initialize" -> InitializeResponse(request.id)
         [] request.method = "tools/list" -> ToolsListResponse(request.id)
         [] request.method = "tools/call" ->
              IF AdapterFor(request.name) = "none"
              THEN UnknownToolResponse(request.id, request.name)
              ELSE NoResponse
         [] OTHER -> MethodNotFoundResponse(request.id, request.method)

DispatchNowAnyCase(request) ==
  CASE request.method = "initialize" -> InitializeResponse(request.id)
    [] request.method \in {"tools/list", "TOOLS/LIST"} ->
         ToolsListResponse(request.id)
    [] request.method = "tools/call" ->
         IF AdapterFor(request.name) = "none"
         THEN UnknownToolResponse(request.id, request.name)
         ELSE NoResponse
    [] OTHER -> MethodNotFoundResponse(request.id, request.method)

\* handleJsonRpcRequest up to the await of the adapter: the response of the
\* cases that await nothing, NoResponse when an adapter is called.
DispatchNow(request) ==
  CASE request.method = "initialize" -> InitializeResponse(request.id)
    [] request.method = "tools/list" -> ToolsListResponse(request.id)
    [] request.method = "tools/call" ->
         IF AdapterFor(request.name) = "none"
         THEN UnknownToolResponse(request.id, request.name)
         ELSE NoResponse
    [] OTHER -> MethodNotFoundResponse(request.id, request.method)

\* request.id || 0
IdOrZero(id) == IF id \in {"absent", "0", "''"} THEN "0" ELSE id

\* The 400 of handleMcpRequest: missing or invalid jsonrpc version.
InvalidRequestResponse(id) ==
  ErrorResponse(IdOrZero(id), -32600,
                <<"Invalid Request: missing or invalid jsonrpc version">>)

ParseErrorAsInvalidRequest(message) ==
  ErrorResponse("0", -32600, <<"Parse error: ", message>>)

\* The catch of handleMcpRequest.
ParseErrorResponse(message) ==
  ErrorResponse("0", -32700, <<"Parse error: ", message>>)

NoRequest ==
  [jsonrpc |-> "absent", id |-> "absent", method |-> "none", name |-> "absent",
   arguments |-> "absent"]

IdleRpc ==
  [pc |-> "idle", via |-> "none", body |-> "none", request |-> NoRequest,
   dispatched |-> FALSE, invoked |-> "none", outcome |-> NoOutcome,
   resp |-> NoResponse, status |-> 0, sent |-> NoResponse,
   method |-> "none", path |-> "none", plain |-> "none",
   healthCalled |-> FALSE, prior |-> {}, headers |-> {}, writes |-> 0]

\* The requests a body can parse to. The members the code does not read on a
\* path are left out: method and params of a request with a bad version,
\* params.name of a method other than tools/call.
ParsedRequests ==
  {[jsonrpc |-> v, id |-> i, method |-> "none", name |-> "absent",
     arguments |-> "absent"] :
      v \in JsonRpcVersions \ {"2.0"}, i \in RequestIds}
  \cup {[jsonrpc |-> "2.0", id |-> i, method |-> m, name |-> "absent",
          arguments |-> "absent"] :
      i \in RequestIds, m \in RpcMethods \ {"tools/call"}}
  \cup {[jsonrpc |-> "2.0", id |-> i, method |-> "tools/call", name |-> n,
          arguments |-> a] :
      i \in RequestIds, n \in RequestedNames, a \in ArgumentsGiven}

SendDispatchedErrorStatus(slot, d) ==
  [slot EXCEPT !.pc = "done", !.resp = d,
               !.status = IF d.hasError THEN 500 ELSE 200, !.sent = d]

\* What the stateless handleMcpRequest writes once the dispatcher has settled:
\* the response with 200, or, had the dispatcher thrown, the 500 of its catch.
SendDispatched(slot, d) ==
  IF d.threw
  THEN Write([slot EXCEPT !.pc = "done", !.resp = d, !.status = 500,
                          !.sent = ParseErrorResponse("dispatch failure")],
             SendJsonHeaders)
  ELSE Write([slot EXCEPT !.pc = "done", !.resp = d, !.status = 200,
                          !.sent = d], SendJsonHeaders)

\* handleMcpRequest, stateless, entered with the handler taken by itself
\* (pc idle) or from the listener, suspended at "await readBody(req)" (pc
\* reading). A body that cannot be read ("unreadable"), is not JSON
\* ("not json"), or is the JSON null, whose member access throws.
UnparsableBodies == {"unreadable", "not json", "null"}

McpPostUnparsable(k, kind) ==
  /\ rpc[k].pc \in {"idle", "reading"}
  /\ rpc' = [rpc EXCEPT ![k] =
        Write([rpc[k] EXCEPT !.pc = "done", !.via = "stateless",
                             !.body = kind, !.status = 500,
                             !.sent = ParseErrorResponse(kind)],
              SendJsonHeaders)]
  /\ UNCHANGED <<sessVars, webVars, toolVars>>

\* POST /mcp, stateless: a body that parses to an object. A bad version is
\* answered 400; otherwise the request goes to handleJsonRpcRequest, which
\* answers at once or awaits an adapter.
McpPost(k, request) ==
  /\ rpc[k].pc \in {"idle", "reading"}
  /\ LET base == [rpc[k] EXCEPT !.via = "stateless", !.body = "json",
                                !.request = request]
     IN
     IF request.jsonrpc # "2.0"
     THEN rpc' = [rpc EXCEPT ![k] =
             Write([base EXCEPT !.pc = "done", !.status = 400,
                                !.sent = InvalidRequestResponse(request.id)],
                   SendJsonHeaders)]
     ELSE IF DispatchNow(request) = NoResponse
     THEN rpc' = [rpc EXCEPT ![k] =
             [base EXCEPT !.pc = "awaiting", !.dispatched = TRUE,
                          !.invoked = AdapterFor(request.name)]]
     ELSE rpc' = [rpc EXCEPT ![k] =
             SendDispatched([base EXCEPT !.dispatched = TRUE],
                            DispatchNow(request))]
  /\ UNCHANGED <<sessVars, webVars, toolVars>>

\* The envelope the CallTool handler of createServer builds in its default
\* case: ok:false with code INVALID_INPUT.
UnknownToolEnvelope == [kind |-> "err", code |-> "INVALID_INPUT"]

\* The SDK server answers a request with what its handler returned, as the
\* result of a JSON-RPC response with the request's id, and with a JSON-RPC
\* error when the handler rejected.
SdkReturned(id, result) == Response(id, result)
SdkHandlerFailed(id, message) == ErrorResponse(id, -32603, <<message>>)

\* The CallTool handler once the awaited adapter has settled.
SdkCallToolResult(id, o) ==
  IF o.kind \in {"throws", "circular"}
  THEN SdkHandlerFailed(id, ExceptionMessage(o))
  ELSE SdkReturned(id, ToolContent(o))

\* A tools/call request reaching the CallTool handler of createServer (over
\* the session transport or stdio): a registered name awaits its adapter, any
\* other name is answered at once with the INVALID_INPUT envelope as content.
SdkCallTool(k, id, name, arguments) ==
  /\ rpc[k].pc = "idle"
  /\ LET base == [IdleRpc EXCEPT !.via = "sdk", !.body = "json",
                     !.dispatched = TRUE,
                     !.request = [jsonrpc |-> "2.0", id |-> id,
                                  method |-> "tools/call", name |-> name,
                                  arguments |-> arguments]]
     IN
     IF name \in ToolNames
     THEN rpc' = [rpc EXCEPT ![k] = [base EXCEPT !.pc = "awaiting", !.invoked = name]]
     ELSE rpc' = [rpc EXCEPT ![k] =
             [base EXCEPT !.pc = "done", !.status = 200,
                          !.resp = SdkReturned(id, ToolContent(UnknownToolEnvelope)),
                          !.sent = SdkReturned(id, ToolContent(UnknownToolEnvelope))]]
  /\ UNCHANGED <<sessVars, webVars, toolVars>>

\* safeParse of an adapter's input schema: each schema requires a string
\* (domain, name) that an absent arguments object does not give.
SafeParseAcceptsAnything(arguments) == TRUE
SafeParseSuccess(arguments) == arguments # "absent"

\* The awaited adapter call settles and the handler that awaited it finishes.
\* An adapter whose validation failed returns its INVALID_INPUT envelope.
AdapterSettles(k, o) ==
  /\ rpc[k].pc = "awaiting"
  /\ ~SafeParseSuccess(rpc[k].request.arguments) =>
        o = [kind |-> "err", code |-> "INVALID_INPUT"]
  /\ LET slot == [rpc[k] EXCEPT !.outcome = o]
         id == rpc[k].request.id
     IN
     IF rpc[k].via = "stateless"
     THEN rpc' = [rpc EXCEPT ![k] = SendDispatched(slot, ToolCallResponse(id, o))]
     ELSE rpc' = [rpc EXCEPT ![k] =
             [slot EXCEPT !.pc = "done", !.status = 200,
                          !.resp = SdkCallToolResult(id, o),
                          !.sent = SdkCallToolResult(id, o)]]
  /\ UNCHANGED <<sessVars, webVars, toolVars>>

-----------------------------------------------------------------------------
\* The 'request' listener of createHttpTransport, both variants.

HttpMethods == {"GET", "POST", "DELETE", "OPTIONS"}
\* The session listener tells GET and OPTIONS from the rest; DELETE on /mcp,
\* the teardown, is followed in Spec.
SessionListenerMethods == {"GET", "POST", "OPTIONS"}
Paths == {"/mcp", "/health", "/ready", "/other"}

\* A stateless listener that answers a wrong method like an unknown path.
StatelessRouteNoMethodAnswer(method, path) ==
  IF method = "OPTIONS" THEN "preflight"
  ELSE CASE path = "/mcp" /\ method = "POST" -> "mcp"
         [] path = "/health" /\ method = "GET" -> "health"
         [] path = "/ready" /\ method = "GET" -> "ready"
         [] OTHER -> "notFound"

\* Stateless listener: the preflight check, then the switch on url.pathname
\* with the method test of each case.
StatelessRoute(method, path) ==
  IF method = "OPTIONS" THEN "preflight"
  ELSE CASE path = "/mcp" ->
              IF method = "POST" THEN "mcp" ELSE "methodNotAllowed"
         [] path = "/health" ->
              IF method = "GET" THEN "health" ELSE "methodNotAllowed"
         [] path = "/ready" ->
              IF method = "GET" THEN "ready" ELSE "methodNotAllowed"
         [] OTHER -> "notFound"

\* A listener that routes /mcp before it looks at the method.
SessionRouteMcpFirst(method, path) ==
  CASE path = "/mcp" -> "mcp"
    [] method = "OPTIONS" -> "preflight"
    [] path = "/health" -> IF method = "GET" THEN "health" ELSE "notFound"
    [] path = "/ready" -> IF method = "GET" THEN "ready" ELSE "notFound"
    [] OTHER -> "notFound"

\* Probes-only listener: the preflight check, GET /health, GET /ready, and
\* 404 for everything else, /mcp included.
ProbesRoute(method, path) ==
  IF method = "OPTIONS" THEN "preflight"
  ELSE IF path = "/health" /\ method = "GET" THEN "health"
  ELSE IF path = "/ready" /\ method = "GET" THEN "ready"
  ELSE "notFound"

\* The headers the probes-only listener sets with res.setHeader.
ProbesListenerHeaders ==
  {CorsHeader, "Access-Control-Allow-Methods: GET, OPTIONS",
   "Access-Control-Allow-Headers: Content-Type"}

\* Session listener: the preflight check, then the switch on url.pathname;
\* /mcp takes every method, the probes answer 404 to a method other than GET.
SessionRoute(method, path) ==
  IF method = "OPTIONS" THEN "preflight"
  ELSE CASE path = "/mcp" -> "mcp"
         [] path = "/health" -> IF method = "GET" THEN "health" ELSE "notFound"
         [] path = "/ready" -> IF method = "GET" THEN "ready" ELSE "notFound"
         [] OTHER -> "notFound"

\* Status and body of the routes that await nothing: the preflight answer,
\* handleReadyCheck, handleNotFound, handleMethodNotAllowed, and
\* handleHealthCheck without a predicate.
Plain(target) ==
  CASE target = "preflight" -> [status |-> 204, body |-> ""]
    [] target = "ready" -> [status |-> 200, body |-> "{ready:true}"]
    [] target = "notFound" -> [status |-> 404, body |-> "{error:Not found}"]
    [] target = "methodNotAllowed" ->
         [status |-> 405, body |-> "{error:Method not allowed}"]
    [] target = "health" -> [status |-> 200, body |-> "{status:ok,checks:{}}"]

HealthAnswerFailureAs200(ok) ==
  IF ok THEN [status |-> 200, body |-> "health"]
  ELSE [status |-> 200, body |-> "{status:error,message}"]

\* handleHealthCheck once the awaited predicate has settled: its value with
\* 200, or the 500 of the catch.
HealthAnswer(ok) ==
  IF ok THEN [status |-> 200, body |-> "health"]
  ELSE [status |-> 500, body |-> "{status:error,message}"]

\* The exchanges already answered (what a later request is served after).
Answered == {q \in AllSlots : rpc[q].pc = "done"}

\* A request reaches the stateless listener: answered at once, or suspended
\* at "await readBody(req)" of handleMcpRequest, or at "await onHealthCheck()".
StatelessRequest(k, method, path) ==
  /\ variant = "stateless"
  /\ listener \in {"listening", "closing"}
  /\ rpc[k].pc = "idle"
  /\ \A q \in WebSlots : q < k => rpc[q].pc # "idle"
  /\ LET target == StatelessRoute(method, path)
         base == [IdleRpc EXCEPT !.via = "stateless", !.method = method,
                                 !.path = path, !.prior = Answered]
     IN
     rpc' = [rpc EXCEPT ![k] =
        IF target = "mcp" THEN [base EXCEPT !.pc = "reading"]
        ELSE IF target = "health" /\ onHealthCheck
        THEN [base EXCEPT !.pc = "health", !.healthCalled = TRUE]
        ELSE Write([base EXCEPT !.pc = "done",
                                !.status = Plain(target).status,
                                !.plain = Plain(target).body],
                   IF target = "preflight" THEN PreflightHeaders
                   ELSE SendJsonHeaders)]
  /\ UNCHANGED <<sessVars, webVars, toolVars>>

\* The body of a request routed to handleMcpRequest has been read.
ReadBodyParsed(k, request) ==
  /\ rpc[k].pc = "reading"
  /\ McpPost(k, request)

ReadBodyFailed(k, kind) ==
  /\ rpc[k].pc = "reading"
  /\ McpPostUnparsable(k, kind)

\* The awaited health predicate settles, stateless listener.
HealthSettles(k, ok) ==
  /\ rpc[k].pc = "health"
  /\ rpc' = [rpc EXCEPT ![k] =
        Write([rpc[k] EXCEPT !.pc = "done",
                 !.outcome = [kind |-> IF ok THEN "ok" ELSE "throws",
                              code |-> "none"],
                 !.status = HealthAnswer(ok).status,
                 !.plain = HealthAnswer(ok).body], SendJsonHeaders)]
  /\ UNCHANGED <<sessVars, webVars, toolVars>>

\* A request reaches the session listener: /mcp goes to handleMcpRequest,
\* which reads the mcp-session-id header h; the other routes leave the header
\* unread and answer at once or await the health predicate. Clients send the
\* header on /mcp only.
SessionRequest(r, method, path, h) ==
  /\ variant = "session"
  /\ IF SessionRoute(method, path) = "mcp"
     THEN HandleMcpRequest(r, method, h)
     ELSE /\ listener \in {"listening", "closing"}
          /\ req[r].pc = "idle"
          /\ \A q \in Reqs : q < r => req[q].pc # "idle"
          /\ path # "/mcp" => h = NoHeader
          /\ LET target == SessionRoute(method, path)
                 base == [IdleReq EXCEPT !.method = method, !.path = path,
                                         !.hdr = h,
                                         !.headers = SessionListenerHeaders]
             IN
             req' = [req EXCEPT ![r] =
                IF target = "health" /\ onHealthCheck
                THEN [base EXCEPT !.pc = "health", !.healthCalled = TRUE]
                ELSE Write([base EXCEPT !.pc = "done",
                                        !.status = Plain(target).status,
                                        !.body = Plain(target).body],
                           IF target = "preflight" THEN {}
                           ELSE {JsonContentType})]
          /\ UNCHANGED <<sessions, nextUuid, createMcpServer, listener,
                         onclose, closeCount, closedPairs, stops, stopLog>>
          /\ UNCHANGED <<rpcVars, webVars, toolVars>>

\* A request reaches the probes-only listener.
ProbesRequest(r, method, path) ==
  /\ variant = "probes"
  /\ listener \in {"listening", "closing"}
  /\ req[r].pc = "idle"
  /\ \A q \in Reqs : q < r => req[q].pc # "idle"
  /\ LET target == ProbesRoute(method, path)
         base == [IdleReq EXCEPT !.method = method, !.path = path,
                                 !.headers = ProbesListenerHeaders]
     IN
     req' = [req EXCEPT ![r] =
        IF target = "health" /\ onHealthCheck
        THEN [base EXCEPT !.pc = "health", !.healthCalled = TRUE]
        ELSE Write([base EXCEPT !.pc = "done",
                                !.status = Plain(target).status,
                                !.body = Plain(target).body],
                   IF target = "preflight" THEN {} ELSE {JsonContentType})]
  /\ UNCHANGED <<sessions, nextUuid, createMcpServer, listener, onclose,
                 closeCount, closedPairs, stops, stopLog>>
  /\ UNCHANGED <<rpcVars, webVars, toolVars>>

\* The awaited health predicate settles, session or probes-only listener.
SessionHealthSettles(r, ok) ==
  /\ req[r].pc = "health"
  /\ req' = [req EXCEPT ![r] =
        Write([req[r] EXCEPT !.pc = "done",
                             !.outcome = IF ok THEN "ok" ELSE "throws",
                             !.status = HealthAnswer(ok).status,
                             !.body = HealthAnswer(ok).body],
              {JsonContentType})]
  /\ UNCHANGED <<sessions, nextUuid, createMcpServer, listener, onclose,
                 closeCount, closedPairs, stops, stopLog>>
  /\ UNCHANGED <<rpcVars, webVars, toolVars>>

\* The bodies and adapter outcomes posted to /mcp behind the listener: every
\* dispatcher case; two ids (a number, and the empty string, which is falsy)
\* for tools/list and the tools/call that awaits an adapter; params of
\* initialize present or not; one request with a bad version.
HttpIds == {"7", "''"}
HttpRequests ==
  {[jsonrpc |-> "2.0", id |-> "7", method |-> m, name |-> n,
    arguments |-> IF n = "absent" THEN "absent" ELSE "object"] :
      m \in {"initialize", "tools/call"}, n \in {"absent", "dns_query"}}
  \cup {[jsonrpc |-> "2.0", id |-> "7", method |-> "bogus", name |-> "absent",
         arguments |-> "absent"],
        [jsonrpc |-> "1.0", id |-> "7", method |-> "none", name |-> "absent",
         arguments |-> "absent"]}
  \cup {[jsonrpc |-> "2.0", id |-> i, method |-> "tools/list", name |-> "absent",
         arguments |-> "absent"] :
      i \in HttpIds}
  \cup {[jsonrpc |-> "2.0", id |-> i, method |-> "tools/call",
         name |-> "dns_query", arguments |-> "object"] : i \in HttpIds}
HttpOutcomes ==
  {[kind |-> "ok", code |-> "none"], [kind |-> "err", code |-> "TIMEOUT"],
   [kind |-> "throws", code |-> "socket hang up"]}

-----------------------------------------------------------------------------
\* Tool adapters (tools/rdap.ts, tools/dns.ts, tools/ct.ts).

\* Largest offset a client-made cursor names.
MaxOffset == 2
\* Largest explicit limit a ct_search input carries.
MaxLimit == 2
\* Largest number of certificates crt.sh returns.
MaxTotal == 4
\* Number of adapter calls in one run.
MaxCalls == 2

DEFAULT_LIMIT == 100
MAX_LIMIT == 1000

\* Text is a sequence of one-character strings.
\* The printable ASCII characters in code order, from 32 (space) to 126 (~);
\* the grave accent (96) is written GRAVE.
Printable ==
  <<" ", "!", "\"", "#", "$", "%", "&", "'", "(", ")", "*", "+", ",", "-", ".", "/",
    "0", "1", "2", "3", "4", "5", "6", "7", "8", "9", ":", ";", "<", "=", ">", "?",
    "@", "A", "B", "C", "D", "E", "F", "G", "H", "I", "J", "K", "L", "M", "N", "O",
    "P", "Q", "R", "S", "T", "U", "V", "W", "X", "Y", "Z", "[", "\\", "]", "^", "_",
    "GRAVE", "a", "b", "c", "d", "e", "f", "g", "h", "i", "j", "k", "l", "m", "n", "o",
    "p", "q", "r", "s", "t", "u", "v", "w", "x", "y", "z", "{", "|", "}", "~">>

\* Buffer.from(text): the UTF-8 bytes of a text of printable ASCII.
Utf8Encode(text) ==
  [i \in DOMAIN text |->
     31 + (CHOOSE k \in DOMAIN Printable : Printable[k] = text[i])]

\* buffer.toString('utf-8'): a byte outside printable ASCII decodes to
\* something that is not a printable ASCII character.
Utf8Decode(bytes) ==
  [i \in DOMAIN bytes |->
     IF bytes[i] \in 32..126 THEN Printable[bytes[i] - 31] ELSE "U+FFFD"]

\* The base64 alphabet: the character of sextet v is Base64Digits[v + 1].
Base64Digits ==
  <<"A", "B", "C", "D", "E", "F", "G", "H", "I", "J", "K", "L", "M", "N", "O", "P",
    "Q", "R", "S", "T", "U", "V", "W", "X", "Y", "Z", "a", "b", "c", "d", "e", "f",
    "g", "h", "i", "j", "k", "l", "m", "n", "o", "p", "q", "r", "s", "t", "u", "v",
    "w", "x", "y", "z", "0", "1", "2", "3", "4", "5", "6", "7", "8", "9", "+", "/">>

\* buffer.toString('base64'): three bytes give four characters, a tail of
\* one or two bytes is padded with '='.
RECURSIVE ToBase64(_)
ToBase64(bytes) ==
  IF Len(bytes) = 0 THEN <<>>
  ELSE IF Len(bytes) = 1 THEN
    <<Base64Digits[(bytes[1] \div 4) + 1],
      Base64Digits[((bytes[1] % 4) * 16) + 1], "=", "=">>
  ELSE IF Len(bytes) = 2 THEN
    LET n == bytes[1] * 256 + bytes[2] IN
    <<Base64Digits[(n \div 1024) + 1],
      Base64Digits[((n \div 16) % 64) + 1],
      Base64Digits[((n % 16) * 4) + 1], "=">>
  ELSE
    LET n == bytes[1] * 65536 + bytes[2] * 256 + bytes[3] IN
    <<Base64Digits[(n \div 262144) + 1],
      Base64Digits[((n \div 4096) % 64) + 1],
      Base64Digits[((n \div 64) % 64) + 1],
      Base64Digits[(n % 64) + 1]>> \o ToBase64(SubSeq(bytes, 4, Len(bytes)))

\* Buffer.from(text, 'base64') never throws: it reads up to the first '=',
\* takes '-' and '_' as the URL-safe forms of '+' and '/', skips every other
\* character outside the alphabet and drops the bits of an incomplete byte.
FromBase64(text) ==
  LET IsDigit(c) == c \in {Base64Digits[i] : i \in DOMAIN Base64Digits} \cup {"-", "_"}
      Sextet(c) ==
        IF c = "-" THEN 62
        ELSE IF c = "_" THEN 63
        ELSE (CHOOSE i \in DOMAIN Base64Digits : Base64Digits[i] = c) - 1
      RECURSIVE UpToPadding(_)
      UpToPadding(t) ==
        IF Len(t) = 0 \/ Head(t) = "=" THEN <<>>
        ELSE <<Head(t)>> \o UpToPadding(Tail(t))
      RECURSIVE Sextets(_)
      Sextets(t) ==
        IF Len(t) = 0 THEN <<>>
        ELSE IF IsDigit(Head(t)) THEN <<Sextet(Head(t))>> \o Sextets(Tail(t))
        ELSE Sextets(Tail(t))
      RECURSIVE Pack(_)
      Pack(ss) ==
        IF Len(ss) < 2 THEN <<>>
        ELSE IF Len(ss) = 2 THEN <<ss[1] * 4 + (ss[2] \div 16)>>
        ELSE IF Len(ss) = 3 THEN
          <<ss[1] * 4 + (ss[2] \div 16), (ss[2] % 16) * 16 + (ss[3] \div 4)>>
        ELSE
          <<ss[1] * 4 + (ss[2] \div 16),
            (ss[2] % 16) * 16 + (ss[3] \div 4),
            (ss[3] % 4) * 64 + ss[4]>> \o Pack(SubSeq(ss, 5, Len(ss)))
  IN Pack(Sextets(UpToPadding(text)))

\* Number.prototype.toString of an integer, as JSON.stringify writes it.
DecimalDigits == <<"0", "1", "2", "3", "4", "5", "6", "7", "8", "9">>
NumberToString(n) ==
  LET RECURSIVE Digits(_)
      Digits(m) ==
        IF m < 10 THEN <<DecimalDigits[m + 1]>>
        ELSE Append(Digits(m \div 10), DecimalDigits[(m % 10) + 1])
  IN IF n < 0 THEN <<"-">> \o Digits(0 - n) ELSE Digits(n)

\* JSON.stringify({ offset: n }).
OffsetKey == <<"\"", "o", "f", "f", "s", "e", "t", "\"">>
JsonStringifyOffset(n) == <<"{">> \o OffsetKey \o <<":">> \o NumberToString(n) \o <<"}">>

\* JavaScript values: numbers (integers here), strings (as text), null,
\* undefined, arrays, and objects as their set of <<key, value>> members.
\* A value has a kind, and the number, the text or the members of that kind.
JsValue(kind, num, text, members) ==
  [kind |-> kind, num |-> num, text |-> text, members |-> members]
Num(n) == JsValue("number", n, <<>>, {})
Str(t) == JsValue("string", 0, t, {})
JsNull == JsValue("null", 0, <<>>, {})

\* JSON number literals without fraction or exponent, and their value.
IsIntegerLiteral(s) ==
  LET IsDigits(d) ==
        /\ Len(d) >= 1
        /\ \A i \in DOMAIN d : d[i] \in {DecimalDigits[k] : k \in 1..10}
        /\ Len(d) > 1 => d[1] # "0"
  IN \/ IsDigits(s)
     \/ Len(s) >= 2 /\ s[1] = "-" /\ IsDigits(Tail(s))
IntegerValue(s) ==
  LET RECURSIVE DigitsValue(_)
      DigitsValue(d) ==
        IF Len(d) = 0 THEN 0
        ELSE DigitsValue(SubSeq(d, 1, Len(d) - 1)) * 10
             + (CHOOSE v \in 0..9 : DecimalDigits[v + 1] = d[Len(d)])
  IN IF s[1] = "-" THEN 0 - DigitsValue(Tail(s)) ELSE DigitsValue(s)

\* JSON.parse on the texts the cursors of this model carry: null, integers,
\* strings without escapes, [], {} and objects of one member with a scalar
\* value; any other text here is not JSON and throws a SyntaxError.
JsonParse(text) ==
  LET IsStringLiteral(s) ==
        /\ Len(s) >= 2
        /\ s[1] = "\"" /\ s[Len(s)] = "\""
        /\ \A i \in 2..(Len(s) - 1) :
              s[i] \in {Printable[k] : k \in DOMAIN Printable} \ {"\"", "\\"}
      StringValue(s) == SubSeq(s, 2, Len(s) - 1)
      IsScalar(s) ==
        s = <<"n", "u", "l", "l">> \/ IsIntegerLiteral(s) \/ IsStringLiteral(s)
      ScalarValue(s) ==
        IF s = <<"n", "u", "l", "l">> THEN JsNull
        ELSE IF IsIntegerLiteral(s) THEN Num(IntegerValue(s))
        ELSE Str(StringValue(s))
      SyntaxError == JsValue("SyntaxError", 0, <<>>, {})
  IN IF IsScalar(text) THEN ScalarValue(text)
     ELSE IF text = <<"[", "]">> THEN JsValue("array", 0, <<>>, {})
     ELSE IF text = <<"{", "}">> THEN JsValue("object", 0, <<>>, {})
     ELSE IF /\ Len(text) >= 5
             /\ text[1] = "{" /\ text[Len(text)] = "}"
             /\ \E i \in DOMAIN text : text[i] = ":"
     THEN LET colon == CHOOSE i \in DOMAIN text :
                         text[i] = ":" /\ \A j \in 1..(i - 1) : text[j] # ":"
              key == SubSeq(text, 2, colon - 1)
              val == SubSeq(text, colon + 1, Len(text) - 1)
          IN IF IsStringLiteral(key) /\ IsScalar(val)
             THEN JsValue("object", 0, <<>>, {<<StringValue(key), ScalarValue(val)>>})
             ELSE SyntaxError
     ELSE SyntaxError

\* The name of the property read from the parsed cursor.
OffsetName == <<"o", "f", "f", "s", "e", "t">>

\* ctSearch, the cursor decode: offset 0 unless the cursor is a non-empty
\* string; then parsed.offset ?? 0 (a TypeError on null, undefined on a
\* value without that property), and a failure on whatever the try catches.
DecodeCursor(cursor) ==
  IF cursor.kind = "null" \/ cursor.text = <<>>
  THEN [failed |-> FALSE, offset |-> Num(0)]
  ELSE LET parsed == JsonParse(Utf8Decode(FromBase64(cursor.text)))
           offset ==
             IF parsed.kind = "SyntaxError" THEN parsed
             ELSE IF parsed.kind = "null" THEN JsValue("TypeError", 0, <<>>, {})
             ELSE IF \E m \in parsed.members : m[1] = OffsetName
             THEN (CHOOSE m \in parsed.members : m[1] = OffsetName)[2]
             ELSE JsValue("undefined", 0, <<>>, {})
       IN IF offset.kind \in {"SyntaxError", "TypeError"}
          THEN [failed |-> TRUE, offset |-> Num(0)]
          ELSE IF offset.kind \in {"undefined", "null"}
               THEN [failed |-> FALSE, offset |-> Num(0)]
               ELSE [failed |-> FALSE, offset |-> offset]

\* ctSearch, the cursor encode.
EncodeCursorPlain(offset) ==
  Str(NumberToString(offset.num))
EncodeCursor(offset) ==
  Str(ToBase64(Utf8Encode(
        IF offset.kind = "string"
        THEN <<"{">> \o OffsetKey \o <<":", "\"">> \o offset.text \o <<"\"", "}">>
        ELSE JsonStringifyOffset(offset.num))))

\* offset + limit: a sum of numbers, a concatenation when offset is a string.
JsPlusNoAdvance(v, n) == v
JsPlus(v, n) ==
  IF v.kind = "string" THEN Str(v.text \o NumberToString(n)) ELSE Num(v.num + n)

\* ToNumber of a value; NaN where a string is not a number.
ToNumber(v) ==
  IF v.kind = "number" THEN v
  ELSE IF v.text = <<>> THEN Num(0)
  ELSE IF IsIntegerLiteral(v.text) THEN Num(IntegerValue(v.text))
  ELSE JsValue("NaN", 0, <<>>, {})

\* Array.prototype.slice(start, end): relative indices, from the end when
\* negative, 0 for NaN.
Slice(array, start, end) ==
  LET RelativeIndex(v) ==
        LET n == IF ToNumber(v).kind = "NaN" THEN 0 ELSE ToNumber(v).num
        IN IF n < 0 THEN (IF Len(array) + n < 0 THEN 0 ELSE Len(array) + n)
           ELSE (IF n > Len(array) THEN Len(array) ELSE n)
  IN SubSeq(array, RelativeIndex(start) + 1, RelativeIndex(end))

\* crt.sh's answer of t certificates: certificate i at index i.
RawData(t) == [i \in 1..t |-> i - 1]

\* What the limit of a ct_search input may be; NoLimit when absent.
NoLimit == 0 - 1
LimitInputs == {NoLimit, 0, 1, MAX_LIMIT, MAX_LIMIT + 1}
PageLimits == {NoLimit} \cup (1..MaxLimit)

\* The cursors a client makes up: none, the empty string, the string of the
\* test suite, and base64 of payloads it composed.
CursorInputs ==
  LET payloads ==
        {JsonStringifyOffset(o) : o \in 0..MaxOffset} \cup
        {JsonStringifyOffset(DEFAULT_LIMIT),
         JsonStringifyOffset(0 - 2),
         <<"{", "}">>,
         <<"{">> \o OffsetKey \o <<":", "n", "u", "l", "l", "}">>,
         <<"{">> \o OffsetKey \o <<":", "\"", "x", "\"", "}">>,
         <<"5">>, <<"n", "u", "l", "l">>,
         <<"{">> \o OffsetKey \o <<":", "1">>}
  IN {JsNull, Str(<<>>),
      Str(<<"i", "n", "v", "a", "l", "i", "d", "-", "c", "u", "r", "s", "o", "r">>)}
     \cup {Str(ToBase64(Utf8Encode(p))) : p \in payloads}

\* All the cursors of a run: those, and the ones ct_search hands out.
Cursors ==
  CursorInputs \cup {EncodeCursor(Num(o)) : o \in (0 - 1)..(MaxOffset + MaxTotal)}

\* The envelope of types.ts: Response<T>, by the keys it has, its error code
\* and message, the page of certificates in its data, the keys of its meta
\* and meta.pagination.next_cursor.
Failure(code, message) ==
  [ok |-> FALSE, keys |-> {"ok", "error", "meta"}, code |-> code,
   message |-> message, page |-> <<>>, meta |-> {"retrieved_at"},
   next_cursor |-> JsNull]
Success(page, meta, next_cursor) ==
  [ok |-> TRUE, keys |-> {"ok", "data", "meta"}, code |-> "none",
   message |-> "", page |-> page, meta |-> meta, next_cursor |-> next_cursor]
\* A promise that rejected instead of resolving to an envelope.
Rejected(error) ==
  [ok |-> FALSE, keys |-> {}, code |-> "rejected", message |-> error,
   page |-> <<>>, meta |-> {}, next_cursor |-> JsNull]

\* No call made yet: a pending promise, no locals.
IdleCall ==
  [tool |-> "none", pc |-> "idle", calls |-> 0, valid |-> TRUE,
   cursor |-> JsNull, limit |-> 0, offset |-> Num(0),
   fetches |-> 0, timer |-> "unset", aborted |-> FALSE, fires |-> 0,
   upstream |-> "none", status |-> 0, total |-> 0, settles |-> 0,
   envelope |-> [ok |-> FALSE, keys |-> {}, code |-> "pending", message |-> "",
                 page |-> <<>>, meta |-> {}, next_cursor |-> JsNull]]

\* The call resolves to an envelope.
Settle(c, envelope) ==
  [c EXCEPT !.pc = "settled", !.settles = @ + 1, !.envelope = envelope]

\* The outer catch of each adapter: AbortError is a timeout, anything else
\* an internal error.
OuterCatchRethrows(error) == Rejected(error)
OuterCatch(error) ==
  IF error = "AbortError"
  THEN Failure("TIMEOUT", "query timed out")
  ELSE Failure("INTERNAL_ERROR", error)

\* new AbortController(), setTimeout(() => controller.abort(), ...) and the
\* call of fetch, up to its await.
StartFetch(c) ==
  [c EXCEPT !.pc = "fetching", !.fetches = @ + 1, !.timer = "armed",
            !.aborted = FALSE]

\* A fresh call: the locals of the previous one are gone. valid is what
\* safeParse of the input schema returns in validation.success.
NewCallTimerFirst(tool, valid) ==
  [IdleCall EXCEPT !.tool = tool, !.calls = call.calls + 1, !.valid = valid,
                   !.timer = "armed"]
NewCall(tool, valid) ==
  [IdleCall EXCEPT !.tool = tool, !.calls = call.calls + 1, !.valid = valid]
CanCall == call.pc \in {"idle", "settled"} /\ call.calls < MaxCalls

\* rdapLookup(input), up to the await of fetch.
RdapLookup(valid) ==
  /\ CanCall
  /\ call' = IF ~valid
             THEN Settle(NewCall("rdap_lookup", valid),
                         Failure("INVALID_INPUT", "Invalid domain format"))
             ELSE StartFetch(NewCall("rdap_lookup", valid))
  /\ UNCHANGED <<sessVars, rpcVars, webVars>>

\* dnsQuery(input), up to the await of fetch.
DnsQuery(valid) ==
  /\ CanCall
  /\ call' = IF ~valid
             THEN Settle(NewCall("dns_query", valid),
                         Failure("INVALID_INPUT", "Invalid DNS name format"))
             ELSE StartFetch(NewCall("dns_query", valid))
  /\ UNCHANGED <<sessVars, rpcVars, webVars>>

\* The cursors a client holds: the ones it makes up, and the next_cursor of
\* the page it was just given.
CursorsAtHand ==
  CursorInputs \cup
  (IF call.pc = "settled" /\ call.envelope.ok /\ call.tool = "ct_search"
   THEN {call.envelope.next_cursor} ELSE {})

\* ctSearch(input), up to the await of fetch: ctInputSchema (limit an
\* integer from 1 to MAX_LIMIT, DEFAULT_LIMIT when absent), then the cursor.
CtSearch(domainValid, limit, cursor) ==
  /\ CanCall
  /\ cursor \in CursorsAtHand
  /\ LET limitValid == limit = NoLimit \/ (limit >= 1 /\ limit <= MAX_LIMIT)
         c == [NewCall("ct_search", domainValid /\ limitValid) EXCEPT
                 !.cursor = cursor,
                 !.limit = IF limit = NoLimit THEN DEFAULT_LIMIT ELSE limit]
         decoded == DecodeCursor(cursor)
     IN call' = IF ~domainValid \/ ~limitValid
                THEN Settle(c, Failure("INVALID_INPUT", "Invalid domain format"))
                ELSE IF decoded.failed
                THEN Settle(c, Failure("INVALID_INPUT", "Invalid pagination cursor"))
                ELSE StartFetch([c EXCEPT !.offset = decoded.offset])
  /\ UNCHANGED <<sessVars, rpcVars, webVars>>

\* The statuses upstream answers with.
UpstreamStatuses == {200, 404, 429, 500}

\* if (!response.ok): 429 is a rate limit, any other status an upstream error.
StatusFailureAllUpstream(status) ==
  Failure("UPSTREAM_ERROR", "query failed with status")
StatusFailure(status) ==
  IF status = 429
  THEN Failure("RATE_LIMITED", "rate limit exceeded")
  ELSE Failure("UPSTREAM_ERROR", "query failed with status")

\* finally { clearTimeout(timeoutId) }.
FetchFinallyKeepsTimer(c) == c
FetchFinally(c) == [c EXCEPT !.timer = IF @ = "armed" THEN "cleared" ELSE @]

\* fetch resolves with a response: the finally clears the timer, then the
\* status is looked at; a 2xx goes on to the await of the body.
FetchResolves(status) ==
  /\ call.pc = "fetching" /\ ~call.aborted
  /\ LET c == [FetchFinally(call) EXCEPT !.upstream = "response", !.status = status]
     IN call' = IF status >= 200 /\ status <= 299
                THEN [c EXCEPT !.pc = "reading"]
                ELSE Settle(c, StatusFailure(status))
  /\ UNCHANGED <<sessVars, rpcVars, webVars>>

\* fetch rejects on a network failure: the finally clears the timer and the
\* outer catch answers.
FetchRejects ==
  /\ call.pc = "fetching" /\ ~call.aborted
  /\ call' = Settle([FetchFinally(call) EXCEPT !.upstream = "network failure"],
                    OuterCatch("fetch failed"))
  /\ UNCHANGED <<sessVars, rpcVars, webVars>>

\* The timeout callback: controller.abort().
TimerFires ==
  /\ call.timer = "armed"
  /\ call' = [call EXCEPT !.timer = "fired", !.aborted = TRUE, !.fires = @ + 1]
  /\ UNCHANGED <<sessVars, rpcVars, webVars>>

\* The aborted fetch rejects with an AbortError; the finally and the outer
\* catch run.
FetchAborted ==
  /\ call.pc = "fetching" /\ call.aborted
  /\ call' = Settle([FetchFinally(call) EXCEPT !.upstream = "aborted"],
                    OuterCatch("AbortError"))
  /\ UNCHANGED <<sessVars, rpcVars, webVars>>

\* What the body of a 2xx response parses to.
BodyShapes ==
  {[kind |-> "array", total |-> t, status |-> 0] : t \in 0..MaxTotal} \cup
  {[kind |-> "object", total |-> 0, status |-> s] : s \in {0, 3}} \cup
  {[kind |-> "null", total |-> 0, status |-> 0]}

\* ctSearch, the pagination: hasMore = nextOffset < totalAvailable.
hasMoreInclusive(nextOffset, totalAvailable) ==
  ToNumber(nextOffset).kind = "number" /\ ToNumber(nextOffset).num <= totalAvailable
hasMore(nextOffset, totalAvailable) ==
  ToNumber(nextOffset).kind = "number" /\ ToNumber(nextOffset).num < totalAvailable

\* What each adapter does with the parsed body, inside its outer try.
RdapParsed(c, body) ==
  IF body.kind = "null"
  THEN OuterCatch("Cannot read properties of null")
  ELSE Success(<<>>, {"source", "retrieved_at", "warnings"}, JsNull)

DnsParsed(c, body) ==
  IF body.kind = "null"
  THEN OuterCatch("Cannot read properties of null")
  ELSE IF body.kind = "object" /\ body.status = 0
  THEN Success(<<>>, {"source", "retrieved_at", "warnings"}, JsNull)
  ELSE Failure("UPSTREAM_ERROR", "DNS error")

CtParsed(c, body) ==
  IF body.kind = "null"
  THEN OuterCatch("Cannot read properties of null")
  ELSE IF body.kind # "array"
  THEN OuterCatch("rawData.slice is not a function")
  ELSE LET nextOffset == JsPlus(c.offset, c.limit)
       IN Success(Slice(RawData(body.total), c.offset, nextOffset),
                  {"source", "retrieved_at", "pagination", "warnings"},
                  IF hasMore(nextOffset, body.total)
                  THEN EncodeCursor(nextOffset) ELSE JsNull)

\* The await of the body resolves with a parsed value.
BodyParsed(body) ==
  /\ call.pc = "reading"
  /\ LET c == [call EXCEPT !.upstream = "body",
                        !.total = IF call.tool = "ct_search" THEN body.total ELSE 0]
     IN call' = Settle(c, CASE call.tool = "rdap_lookup" -> RdapParsed(c, body)
                            [] call.tool = "dns_query" -> DnsParsed(c, body)
                            [] OTHER -> CtParsed(c, body))
  /\ UNCHANGED <<sessVars, rpcVars, webVars>>

\* The await of the body rejects (the stream fails or the text is not
\* JSON), or JSON.parse throws: the inner catch answers.
BodyFails ==
  /\ call.pc = "reading"
  /\ call' = Settle([call EXCEPT !.upstream = "unparsable body"],
                    Failure("PARSE_ERROR", "Failed to parse response as JSON"))
  /\ UNCHANGED <<sessVars, rpcVars, webVars>>

-----------------------------------------------------------------------------
InitSession ==
  /\ sessions = <<>>
  /\ nextUuid = 1
  /\ createMcpServer \in BOOLEAN
  /\ listener = "created"
  /\ req = [r \in Reqs |-> IdleReq]
  /\ onclose = [p \in Pairs |-> 0]
  /\ closeCount = [p \in Pairs |-> 0]
  /\ closedPairs = {}
  /\ stops = 0
  /\ stopLog = [before |-> {}, failed |-> FALSE, atClose |-> <<>>]

Init ==
  /\ InitSession
  /\ rpc = [k \in AllSlots |-> IdleRpc]
  /\ variant = "session"
  /\ onHealthCheck = FALSE
  /\ call = IdleCall

Next ==
  \/ Start
  \/ \E r \in Reqs, m \in Methods, h \in HeaderIds : HandleMcpRequest(r, m, h)
  \/ \E r \in Reqs : ConnectResolved(r)
  \/ \E r \in Reqs : TransportHandleRequest(r)
  \/ \E p \in Pairs : TransportOnclose(p)
  \/ \E failing \in SUBSET Pairs : Stop(failing)
  \/ ListenerClosed

Spec == Init /\ [][Next]_vars

\* The JSON-RPC layer alone, no session transport running.
InitRpc ==
  /\ InitSession
  /\ createMcpServer = FALSE
  /\ rpc = [k \in AllSlots |-> IdleRpc]
  /\ variant = "stateless"
  /\ onHealthCheck = FALSE
  /\ call = IdleCall

NextRpc ==
  \/ \E k \in RpcSlots, kind \in UnparsableBodies : McpPostUnparsable(k, kind)
  \/ \E k \in RpcSlots, request \in ParsedRequests : McpPost(k, request)
  \/ \E k \in RpcSlots, id \in SdkRequestIds, name \in SdkRequestedNames,
        arguments \in ArgumentsGiven :
        SdkCallTool(k, id, name, arguments)
  \/ \E k \in RpcSlots, o \in AdapterOutcomes : AdapterSettles(k, o)

SpecRpc == InitRpc /\ [][NextRpc]_vars

\* The session listener with every route, and session creation that can
\* fail: POST /mcp, and one request for each route that is not /mcp.
RoutesTried ==
  {<<"POST", "/mcp">>, <<"OPTIONS", "/mcp">>, <<"GET", "/health">>,
   <<"GET", "/ready">>, <<"GET", "/other">>}

NextCreate ==
  \/ Start
  \/ \E r \in Reqs, route \in RoutesTried, h \in HeaderIds :
        SessionRequest(r, route[1], route[2], h)
  \/ \E r \in Reqs, h \in HeaderIds : CreateMcpServerThrows(r, "POST", h)
  \/ \E r \in Reqs : ConnectResolved(r)
  \/ \E r \in Reqs : ConnectRejected(r)
  \/ \E r \in Reqs : TransportHandleRequest(r)
  \/ \E p \in Pairs : TransportOnclose(p)
  \/ Stop({})

SpecCreate == Init /\ [][NextCreate]_vars

\* The listener of the variant deployed, from construction.
InitHttp ==
  /\ InitSession
  /\ rpc = [k \in AllSlots |-> IdleRpc]
  /\ variant \in {"session", "stateless", "probes"}
  /\ onHealthCheck \in BOOLEAN
  /\ call = IdleCall

NextHttp ==
  \/ Start
  \/ \E k \in WebSlots, method \in HttpMethods, path \in Paths :
        StatelessRequest(k, method, path)
  \/ \E k \in WebSlots, request \in HttpRequests : ReadBodyParsed(k, request)
  \/ \E k \in WebSlots, kind \in {"unreadable", "not json"} :
        ReadBodyFailed(k, kind)
  \/ \E k \in WebSlots, o \in HttpOutcomes : AdapterSettles(k, o)
  \/ \E k \in WebSlots, ok \in BOOLEAN : HealthSettles(k, ok)
  \/ \E r \in Reqs, method \in SessionListenerMethods, path \in Paths,
        h \in HeaderIds :
        SessionRequest(r, method, path, h)
  \/ \E r \in Reqs : ConnectResolved(r)
  \/ \E r \in Reqs : TransportHandleRequest(r)
  \/ \E r \in Reqs, method \in HttpMethods, path \in Paths :
        ProbesRequest(r, method, path)
  \/ \E r \in Reqs, ok \in BOOLEAN : SessionHealthSettles(r, ok)

SpecHttp == InitHttp /\ [][NextHttp]_vars

\* The adapters alone, called one after the other.
InitTool ==
  /\ InitSession
  /\ createMcpServer = FALSE
  /\ rpc = [k \in AllSlots |-> IdleRpc]
  /\ variant = "stateless"
  /\ onHealthCheck = FALSE
  /\ call = IdleCall

NextTool ==
  \/ \E valid \in BOOLEAN : RdapLookup(valid)
  \/ \E valid \in BOOLEAN : DnsQuery(valid)
  \/ \E limit \in PageLimits, cursor \in Cursors : CtSearch(TRUE, limit, cursor)
  \/ \E domainValid \in BOOLEAN, limit \in LimitInputs :
        CtSearch(domainValid, limit, JsNull)
  \/ \E status \in UpstreamStatuses : FetchResolves(status)
  \/ FetchRejects
  \/ TimerFires
  \/ FetchAborted
  \/ \E body \in BodyShapes : BodyParsed(body)
  \/ BodyFails

SpecTool == InitTool /\ [][NextTool]_vars

-----------------------------------------------------------------------------
\* Session transport: properties.

Arrived(r) == req[r].pc # "idle"

\* C1: a session is never visible to a second request before its creating
\* request has finished registering it: no request finds, by its header, an
\* entry whose creating request is still awaiting server.connect.
C1_NoEarlyVisibility == \A r \in Reqs : ~req[r].early

C3_StopClosesEverySessionOnce ==
  /\ \A p \in Pairs : closeCount[p] = (IF p \in stopLog.before THEN 1 ELSE 0)
  /\ stopLog.atClose = <<>>

C3_Witness ==
  stops > 0 /\ Cardinality(stopLog.before) >= 2 /\ stopLog.failed

\* C4: once stop() has swept the table of a listening transport, the table is
\* empty in every later state, while the listener is closing and after it has
\* closed.
C4_TableEmptyAfterSweep ==
  (stops > 0 /\ listener \in {"closing", "closed"}) => sessions = <<>>

\* C5: every session creation stores its pair under an id that is not a key of
\* the table and was never used before, so it adds an entry and overwrites
\* none, and no two sessions ever have the same id.
C5_SessionIdsUnique ==
  /\ \A r \in Reqs : req[r].created => req[r].fresh /\ req[r].delta = 1
  /\ \A p, q \in Reqs :
        (p # q /\ req[p].created /\ req[q].created)
           => req[p].sessionId # req[q].sessionId
  /\ \A i, j \in 1..Len(sessions) : i # j => sessions[i].id # sessions[j].id

C5_Witness ==
  /\ \A r \in Reqs : req[r].pc = "connecting" /\ req[r].hdr = UnknownId
  /\ Len(sessions) = MaxReqs

C7_DeleteRemovesSession ==
  \A r \in Reqs :
     (req[r].method = "DELETE" /\ req[r].found /\ req[r].pc = "done")
        => req[r].hdr \notin Keys(sessions)

-----------------------------------------------------------------------------
\* JSON-RPC layer: properties.

Dispatched(k) == rpc[k].dispatched /\ rpc[k].pc = "done"

\* C8: handleJsonRpcRequest never throws: whatever the method, the params and
\* the adapter's behaviour, it resolves to a response with jsonrpc "2.0" in
\* which exactly one of result and error is present.
C8_DispatcherNeverThrows ==
  \A k \in RpcSlots : (Dispatched(k) /\ rpc[k].via = "stateless") =>
     /\ ~rpc[k].resp.threw
     /\ rpc[k].resp.jsonrpc = "2.0"
     /\ rpc[k].resp.hasResult # rpc[k].resp.hasError

C8_Witness ==
  \E k \in RpcSlots :
     /\ Dispatched(k) /\ rpc[k].via = "stateless"
     /\ rpc[k].outcome.kind = "throws"
     /\ rpc[k].resp.code = -32603

\* C9: when the adapter of a tools/call resolves with an envelope having
\* ok:false, the JSON-RPC response carries a result whose content is one text
\* item holding the serialized envelope, carries no error, and is sent with
\* HTTP status 200.
C9_DomainFailureIsResult ==
  \A k \in RpcSlots :
     (Dispatched(k) /\ rpc[k].via = "stateless" /\ rpc[k].outcome.kind = "err") =>
        /\ rpc[k].resp.hasResult
        /\ ~rpc[k].resp.hasError
        /\ rpc[k].resp.result.kind = "content"
        /\ Len(rpc[k].resp.result.content) = 1
        /\ rpc[k].resp.result.content[1].type = "text"
        /\ rpc[k].resp.result.content[1].text = Stringify(rpc[k].outcome)
        /\ rpc[k].status = 200
        /\ rpc[k].sent = rpc[k].resp

C9_Witness ==
  \E k \in RpcSlots :
     /\ Dispatched(k) /\ rpc[k].via = "stateless"
     /\ rpc[k].outcome = [kind |-> "err", code |-> "RATE_LIMITED"]
     /\ rpc[k].invoked = "dns_query"

\* C10: a tools/call whose params.name is not a registered tool name yields a
\* JSON-RPC error with code -32601 whose message embeds the name, and no
\* adapter is invoked.
C10_UnknownToolIsMethodNotFound ==
  \A k \in RpcSlots :
     (Dispatched(k) /\ rpc[k].request.method = "tools/call"
        /\ rpc[k].request.name \notin ToolNames) =>
        /\ rpc[k].resp.hasError
        /\ ~rpc[k].resp.hasResult
        /\ rpc[k].resp.code = -32601
        /\ rpc[k].resp.msg = <<"Unknown tool: ", Interpolate(rpc[k].request.name)>>
        /\ rpc[k].invoked = "none"

-----------------------------------------------------------------------------
\* Stateless transport: properties of one exchange.

ServedMethods == {"initialize", "tools/list", "tools/call"}

\* The request of slot k was parsed from a POST /mcp body and carries
\* version 2.0.
Stateless20(k) ==
  /\ rpc[k].via = "stateless"
  /\ rpc[k].body = "json"
  /\ rpc[k].request.jsonrpc = "2.0"

\* C11: the method set is closed: a 2.0 request whose method is not exactly
\* initialize, tools/list or tools/call is answered at once with the JSON-RPC
\* error -32601 naming the method, HTTP 200, and no adapter is invoked.
C11_MethodSetClosed ==
  \A k \in RpcSlots :
    (Stateless20(k) /\ rpc[k].request.method \notin ServedMethods) =>
      /\ rpc[k].pc = "done"
      /\ rpc[k].sent.hasError /\ ~rpc[k].sent.hasResult
      /\ rpc[k].sent.code = -32601
      /\ rpc[k].sent.msg =
           <<"Method not found: ", Interpolate(rpc[k].request.method)>>
      /\ rpc[k].status = 200
      /\ rpc[k].invoked = "none"
      /\ rpc[k].outcome = NoOutcome

C11_Witness ==
  \E k \in RpcSlots :
    /\ Stateless20(k)
    /\ rpc[k].request.method = "TOOLS/LIST"
    /\ rpc[k].pc = "done"
    /\ rpc[k].sent.code = -32601

\* C14: a body that parses to a request whose version is missing or not
\* "2.0" is answered 400 with the JSON-RPC error -32600 without reaching the
\* dispatcher or an adapter, and the response id is the request's id when
\* the request has one and 0 when it has none.
C14_InvalidVersionRejected ==
  \A k \in RpcSlots :
    (/\ rpc[k].via = "stateless"
     /\ rpc[k].body = "json"
     /\ rpc[k].request.jsonrpc # "2.0") =>
      /\ rpc[k].pc = "done"
      /\ rpc[k].status = 400
      /\ rpc[k].sent.hasError /\ rpc[k].sent.code = -32600
      /\ ~rpc[k].dispatched
      /\ rpc[k].invoked = "none"
      /\ rpc[k].sent.id = IF rpc[k].request.id = "absent" THEN "0"
                          ELSE rpc[k].request.id

\* C16: every POST /mcp whose request reached the dispatcher is answered with
\* HTTP 200 and the dispatcher's response as the body, whether that response
\* carries a result or an error (-32601, -32603).
C16_DispatchedAnswered200 ==
  \A k \in RpcSlots :
    (rpc[k].via = "stateless" /\ Dispatched(k)) =>
      /\ rpc[k].status = 200
      /\ rpc[k].sent = rpc[k].resp
      /\ rpc[k].sent.hasResult # rpc[k].sent.hasError
      /\ rpc[k].sent.hasError => rpc[k].sent.code \in {-32601, -32603}

C16_Witness ==
  \E k \in RpcSlots :
    /\ rpc[k].via = "stateless" /\ Dispatched(k)
    /\ rpc[k].sent.hasError /\ rpc[k].sent.code = -32603
    /\ rpc[k].status = 200

\* C17: an exception raised while the dispatcher handles a request (the
\* awaited adapter rejecting, JSON.stringify of its result throwing) becomes
\* the JSON-RPC error -32603 whose message carries the exception's message,
\* with the request's id; it does not reach the catch of the transport.
C17_ExceptionBecomesInternalError ==
  \A k \in RpcSlots :
    (/\ rpc[k].via = "stateless" /\ Dispatched(k)
     /\ rpc[k].outcome.kind \in {"throws", "circular"}) =>
      /\ ~rpc[k].resp.threw
      /\ rpc[k].resp.hasError /\ rpc[k].resp.code = -32603
      /\ rpc[k].resp.id = rpc[k].request.id
      /\ rpc[k].resp.msg =
           <<"Internal error: ",
             IF rpc[k].outcome.kind = "circular"
             THEN "Converting circular structure to JSON"
             ELSE IF rpc[k].outcome.code = "not an Error" THEN "Unknown error"
             ELSE rpc[k].outcome.code>>
      /\ rpc[k].sent = rpc[k].resp
      /\ rpc[k].status = 200

C17_Witness ==
  \E k \in RpcSlots :
    /\ rpc[k].via = "stateless" /\ Dispatched(k)
    /\ rpc[k].outcome = [kind |-> "throws", code |-> "socket hang up"]
    /\ rpc[k].resp.msg = <<"Internal error: ", "socket hang up">>
    /\ rpc[k].request.id = "'a'"

-----------------------------------------------------------------------------
\* Stateless transport behind its listener: properties over several requests.

\* Slot k holds an answered tools/list exchange.
ToolsListed(k) ==
  /\ Stateless20(k)
  /\ rpc[k].request.method = "tools/list"
  /\ rpc[k].pc = "done"

\* C12: every tools/list, whatever was served before it (initialize,
\* tools/list, tools/call with any outcome), returns the registry in
\* registration order rdap_lookup, dns_query, ct_search, and any two tools/list
\* answers of a run carry identical definitions.
C12_ToolsListIsTheRegistry ==
  \A k \in WebSlots :
    ToolsListed(k) =>
      /\ rpc[k].sent.hasResult /\ ~rpc[k].sent.hasError
      /\ rpc[k].sent.result.kind = "tools"
      /\ rpc[k].sent.result.content = <<"rdap_lookup", "dns_query", "ct_search">>
      /\ \A j \in WebSlots :
           ToolsListed(j) => rpc[j].sent.result = rpc[k].sent.result

C12_Witness ==
  \E k \in WebSlots : \E j \in rpc[k].prior :
    /\ ToolsListed(k)
    /\ rpc[j].request.method = "tools/call"
    /\ rpc[j].outcome.kind = "throws"

\* C13: every response to a 2.0 request carries that request's id unchanged,
\* result or error, also when requests are suspended on their adapters
\* together and answered in any order.
C13_ResponseCarriesOwnId ==
  \A k \in WebSlots :
    (Stateless20(k) /\ rpc[k].pc = "done") =>
      /\ rpc[k].sent.jsonrpc = "2.0"
      /\ rpc[k].sent.id = rpc[k].request.id
      /\ rpc[k].sent.hasResult # rpc[k].sent.hasError

\* Request k arrived after request j, awaited its adapter and was answered
\* while j, carrying another id, is still suspended on its own adapter.
C13_Witness ==
  \E j, k \in WebSlots :
    /\ j < k
    /\ Stateless20(j) /\ rpc[j].pc = "awaiting"
    /\ Stateless20(k) /\ rpc[k].pc = "done"
    /\ rpc[k].outcome # NoOutcome
    /\ rpc[j].request.id # rpc[k].request.id
    /\ rpc[k].sent.id = rpc[k].request.id

\* Slot k holds a POST /mcp whose body could not be read or was not JSON.
BodyFailed(k) ==
  /\ rpc[k].via = "stateless"
  /\ rpc[k].body \in {"unreadable", "not json"}

\* C15: a POST /mcp whose body cannot be read or parsed is answered 500 with
\* the JSON-RPC error -32700 and id 0, without reaching the dispatcher; a
\* request served after it is dispatched and answered as usual, 200 with its
\* own id.
C15_ParseErrorAnswered ==
  \A k \in WebSlots :
    /\ BodyFailed(k) =>
         /\ rpc[k].pc = "done"
         /\ rpc[k].status = 500
         /\ rpc[k].sent.hasError /\ rpc[k].sent.code = -32700
         /\ rpc[k].sent.id = "0"
         /\ ~rpc[k].dispatched
         /\ rpc[k].invoked = "none"
    /\ \A j \in rpc[k].prior :
         (BodyFailed(j) /\ Stateless20(k) /\ rpc[k].pc = "done") =>
           /\ rpc[k].dispatched
           /\ rpc[k].status = 200
           /\ rpc[k].sent = rpc[k].resp
           /\ rpc[k].sent.id = rpc[k].request.id
           /\ ToolsListed(k) => rpc[k].sent.hasResult

C15_Witness ==
  \E k \in WebSlots : \E j \in rpc[k].prior :
    /\ BodyFailed(j)
    /\ rpc[j].body = "not json"
    /\ rpc[j].status = 500
    /\ ToolsListed(k)
    /\ rpc[k].sent.hasResult

\* What the client sent in exchange k and what the awaited adapter (or health
\* predicate) gave, and what the client got back.
Asked(k) ==
  <<rpc[k].method, rpc[k].path, rpc[k].body, rpc[k].request, rpc[k].outcome>>
Got(k) == <<rpc[k].status, rpc[k].sent, rpc[k].plain>>

\* C18: the stateless transport keeps nothing between requests: two answered
\* exchanges that asked the same and got the same outcome of the awaited call
\* were answered the same, whatever had been served before each; tools/list and
\* tools/call of a registered tool are served with a result whether or not
\* an initialize came first; initialize answers the same server identity
\* (dns-intel, 1.0.0) whatever its params.
C18_NoCrossRequestState ==
  \A k \in WebSlots :
    (rpc[k].via = "stateless" /\ rpc[k].pc = "done") =>
      /\ \A j \in WebSlots :
           (rpc[j].via = "stateless" /\ rpc[j].pc = "done"
            /\ Asked(j) = Asked(k)) => Got(j) = Got(k)
      /\ ToolsListed(k) => rpc[k].sent.hasResult
      /\ (Stateless20(k) /\ rpc[k].request.method = "tools/call"
          /\ rpc[k].outcome.kind \in {"ok", "err"}) => rpc[k].sent.hasResult
      /\ (Stateless20(k) /\ rpc[k].request.method = "initialize") =>
           /\ rpc[k].sent.hasResult
           /\ rpc[k].sent.result =
                [kind |-> "initialize", content |-> <<"dns-intel", "1.0.0">>]

\* No initialize in the run; request k asked the same tools/call as the already
\* answered request j and was answered the same.
C18_Witness ==
  \E k \in WebSlots : \E j \in rpc[k].prior :
    /\ \A q \in WebSlots : rpc[q].request.method # "initialize"
    /\ Stateless20(k) /\ rpc[k].pc = "done"
    /\ rpc[k].request.method = "tools/call"
    /\ rpc[k].outcome.kind = "ok"
    /\ Asked(j) = Asked(k)
    /\ Got(j) = Got(k)
    /\ rpc[k].sent.hasResult

-----------------------------------------------------------------------------
\* The listeners: properties of routing.

\* C19: an OPTIONS request on any path is answered 204 with an empty body in
\* the step it arrives, before routing: the step reads no body, reaches no
\* dispatcher and no adapter, does not call the health predicate, and looks up,
\* creates or removes no session (the table and the id source stay as they
\* were), on either listener.
C19_PreflightBeforeRouting ==
  [][
      /\ \A k \in WebSlots :
           (rpc[k].pc = "idle" /\ rpc'[k].method = "OPTIONS") =>
             /\ rpc'[k].pc = "done"
             /\ rpc'[k].status = 204 /\ rpc'[k].plain = ""
             /\ rpc'[k].body = "none" /\ rpc'[k].sent = NoResponse
             /\ ~rpc'[k].dispatched /\ rpc'[k].invoked = "none"
             /\ ~rpc'[k].healthCalled
      /\ \A r \in Reqs :
           (req[r].pc = "idle" /\ req'[r].method = "OPTIONS") =>
             /\ req'[r].pc = "done"
             /\ req'[r].status = 204 /\ req'[r].body = ""
             /\ ~req'[r].found /\ ~req'[r].created /\ req'[r].pair = 0
             /\ ~req'[r].healthCalled
             /\ sessions' = sessions /\ nextUuid' = nextUuid
             /\ onclose' = onclose /\ closedPairs' = closedPairs
    ]_vars

\* An OPTIONS /mcp naming a live session in its header was answered 204 and
\* the session is still in the table.
C19_Witness ==
  \E r \in Reqs :
    /\ req[r].method = "OPTIONS" /\ req[r].path = "/mcp"
    /\ req[r].hdr \in Keys(sessions)
    /\ req[r].status = 204
    /\ ~req[r].found

\* Slot k holds a request the stateless listener has received.
Received(k) == rpc[k].via = "stateless" /\ rpc[k].method # "none"

-----------------------------------------------------------------------------
\* The probes.

\* What GET /health must answer given whether a predicate is configured and
\* what it gave: status and body.
HealthExpected(outcome) ==
  IF ~onHealthCheck THEN <<200, "{status:ok,checks:{}}">>
  ELSE IF outcome = "ok" THEN <<200, "health">>
  ELSE <<500, "{status:error,message}">>

\* C21: GET /health is answered 200 with the predicate's result, or with the
\* default {status:"ok",checks:{}} when no predicate is configured (none is
\* called then); a predicate that throws or rejects gives 500 with an error
\* body; the request gets exactly one response, none while the predicate is
\* awaited; a request served after a failed health check is answered as
\* usual. On every listener.
C21_HealthAnswered ==
  /\ \A k \in WebSlots :
       (Received(k) /\ rpc[k].path = "/health" /\ rpc[k].method = "GET") =>
         /\ rpc[k].healthCalled = onHealthCheck
         /\ rpc[k].pc \in {"health", "done"}
         /\ rpc[k].pc = "health" => rpc[k].writes = 0
         /\ rpc[k].pc = "done" =>
              /\ rpc[k].writes = 1
              /\ <<rpc[k].status, rpc[k].plain>> =
                   HealthExpected(rpc[k].outcome.kind)
         /\ \A j \in WebSlots :
              (k \in rpc[j].prior /\ rpc[k].status = 500
               /\ rpc[j].pc = "done") =>
                /\ rpc[j].writes = 1
                /\ (rpc[j].path = "/ready" /\ rpc[j].method = "GET") =>
                     rpc[j].status = 200
                /\ (rpc[j].path = "/health" /\ rpc[j].method = "GET"
                    /\ rpc[j].outcome.kind = "ok") => rpc[j].status = 200
                /\ rpc[j].dispatched => rpc[j].status = 200
  /\ \A r \in Reqs :
       (req[r].path = "/health" /\ req[r].method = "GET") =>
         /\ req[r].healthCalled = onHealthCheck
         /\ req[r].pc \in {"health", "done"}
         /\ req[r].pc = "health" => req[r].writes = 0
         /\ req[r].pc = "done" =>
              /\ req[r].writes = 1
              /\ <<req[r].status, req[r].body>> = HealthExpected(req[r].outcome)

\* A health check whose predicate failed was answered 500, once, and a later
\* health check, the predicate succeeding, 200.
C21_Witness ==
  \E k \in WebSlots : \E j \in rpc[k].prior :
    /\ rpc[j].path = "/health" /\ rpc[j].outcome.kind = "throws"
    /\ rpc[j].status = 500 /\ rpc[j].writes = 1
    /\ rpc[k].path = "/health" /\ rpc[k].outcome.kind = "ok"
    /\ rpc[k].status = 200 /\ rpc[k].plain = "health"

\* Status and body the stateless listener gives a request that is not to
\* /mcp, the health predicate having given outcome.
StatelessAnswer(method, path, outcome) ==
  LET target == StatelessRoute(method, path) IN
  IF target = "health" /\ onHealthCheck
  THEN <<HealthAnswer(outcome = "ok").status, HealthAnswer(outcome = "ok").body>>
  ELSE <<Plain(target).status, Plain(target).body>>

\* C23: on every request that is not to /mcp the session listener answers
\* with the status and body the stateless listener gives the same method and
\* path (GET and other methods on /health and /ready, unmatched paths,
\* OPTIONS).
C23_SessionMatchesStateless ==
  variant = "session" =>
    \A r \in Reqs :
      (req[r].pc = "done" /\ req[r].path \notin {"none", "/mcp"}) =>
        <<req[r].status, req[r].body>> =
          StatelessAnswer(req[r].method, req[r].path, req[r].outcome)

-----------------------------------------------------------------------------
\* Response headers.

\* C22: every response a listener writes, whatever its status (200, 204, 400,
\* 404, 405, 500, and on the session listener 503 and the answers of the
\* delegated session transport), carries Access-Control-Allow-Origin: *.
C22_CorsOnEveryResponse ==
  /\ \A k \in WebSlots :
       (Received(k) /\ rpc[k].writes > 0) =>
         "Access-Control-Allow-Origin: *" \in rpc[k].headers
  /\ \A r \in Reqs :
       req[r].writes > 0 => "Access-Control-Allow-Origin: *" \in req[r].headers

\* The stateless listener has answered a 400 and a 500, both with the header.
C22_Witness ==
  \E j, k \in WebSlots :
    /\ rpc[j].status = 400 /\ rpc[k].status = 500
    /\ "Access-Control-Allow-Origin: *" \in rpc[j].headers \cap rpc[k].headers

-----------------------------------------------------------------------------
\* Tool adapters: properties.

\* C24: the cursor made by encoding a non-negative integer offset o decodes
\* back to o: a ct_search given it is not refused for its cursor, runs with
\* offset o and answers the page that starts at index o; and every
\* next_cursor ct_search hands out decodes to the offset it was made from.
C24_CursorRoundTrip ==
  (call.tool = "ct_search" /\ call.envelope.message # "Invalid domain format") =>
    /\ \A o \in (0..(MaxOffset + MaxTotal)) \cup {DEFAULT_LIMIT} :
         call.cursor = Str(ToBase64(Utf8Encode(JsonStringifyOffset(o)))) =>
           /\ call.envelope.message # "Invalid pagination cursor"
           /\ call.fetches = 1
           /\ call.offset = Num(o)
           /\ call.envelope.ok =>
                call.envelope.page =
                  SubSeq(RawData(call.total), o + 1,
                         IF o + call.limit > call.total THEN call.total
                         ELSE o + call.limit)
    /\ (call.envelope.ok /\ call.envelope.next_cursor.kind = "string") =>
         DecodeCursor(call.envelope.next_cursor)
           = [failed |-> FALSE, offset |-> JsPlus(call.offset, call.limit)]

\* A second ct_search, given the cursor of offset 2, answered a page that
\* starts at certificate 2.
C24_Witness ==
  /\ call.tool = "ct_search" /\ call.calls = 2
  /\ call.cursor = Str(ToBase64(Utf8Encode(JsonStringifyOffset(2))))
  /\ call.envelope.ok
  /\ Len(call.envelope.page) > 0 /\ call.envelope.page[1] = 2

\* C25: a ct_search given a malformed cursor string (anything but base64 of
\* a JSON object whose offset is a non-negative integer) makes no outbound
\* call and answers INVALID_INPUT with a message about the cursor.
C25_MalformedCursorRejected ==
  LET parsed == JsonParse(Utf8Decode(FromBase64(call.cursor.text)))
      wellFormed ==
        /\ parsed.kind = "object"
        /\ \E m \in parsed.members :
             m[1] = OffsetName /\ m[2].kind = "number" /\ m[2].num >= 0
  IN (/\ call.tool = "ct_search"
      /\ call.envelope.message # "Invalid domain format"
      /\ call.cursor.kind = "string"
      /\ ~wellFormed) =>
       /\ call.fetches = 0
       /\ call.envelope.code = "INVALID_INPUT"
       /\ call.envelope.message = "Invalid pagination cursor"

\* C26: a successful ct_search with offset o, limit l and t certificates
\* available answers next_cursor null exactly when o + l >= t and the
\* encoding of o + l otherwise; without a cursor the offset is 0.
C26_NextCursor ==
  (call.tool = "ct_search" /\ call.envelope.ok /\ call.offset.kind = "number") =>
    LET o == call.offset.num
        l == call.limit
        t == call.total
    IN /\ call.envelope.next_cursor = JsNull <=> o + l >= t
       /\ o + l < t =>
            call.envelope.next_cursor = Str(ToBase64(Utf8Encode(JsonStringifyOffset(o + l))))
       /\ call.cursor = JsNull => o = 0

\* A page from a decoded offset with more certificates behind it, and its
\* next_cursor.
C26_Witness ==
  /\ call.tool = "ct_search" /\ call.envelope.ok
  /\ call.cursor.kind = "string" /\ call.offset.kind = "number"
  /\ call.offset.num > 0
  /\ call.offset.num + call.limit < call.total
  /\ call.envelope.next_cursor.kind = "string"

\* C27: an adapter call never rejects: once settled it holds one
\* well-formed envelope, ok with data and meta, or an error with one of the
\* six codes and meta.retrieved_at.
C27_AlwaysAnEnvelope ==
  call.pc = "settled" =>
    /\ call.envelope.code # "rejected"
    /\ "retrieved_at" \in call.envelope.meta
    /\ \/ call.envelope.ok /\ call.envelope.keys = {"ok", "data", "meta"}
       \/ /\ ~call.envelope.ok
          /\ call.envelope.keys = {"ok", "error", "meta"}
          /\ call.envelope.code \in ErrorCodes

\* rdap_lookup was answered 200 with a body that parsed to null and
\* resolved to INTERNAL_ERROR.
C27_Witness ==
  /\ call.pc = "settled" /\ call.tool = "rdap_lookup"
  /\ call.upstream = "body" /\ call.status = 200
  /\ call.envelope.code = "INTERNAL_ERROR"

\* C28: in every adapter, 429 gives RATE_LIMITED, any other non-2xx status
\* UPSTREAM_ERROR, an aborted fetch TIMEOUT, any other failure of fetch
\* INTERNAL_ERROR, and a 2xx whose body cannot be read as JSON PARSE_ERROR.
C28_FailureMapping ==
  call.pc = "settled" =>
    /\ (call.upstream = "response" /\ call.status = 429) =>
         call.envelope.code = "RATE_LIMITED"
    /\ (call.upstream = "response" /\ call.status # 429) =>
         call.envelope.code = "UPSTREAM_ERROR"
    /\ call.upstream = "aborted" => call.envelope.code = "TIMEOUT"
    /\ call.upstream = "network failure" => call.envelope.code = "INTERNAL_ERROR"
    /\ call.upstream = "unparsable body" => call.envelope.code = "PARSE_ERROR"

\* dns_query was answered 429 and resolved to RATE_LIMITED.
C28_Witness ==
  /\ call.pc = "settled" /\ call.tool = "dns_query"
  /\ call.upstream = "response" /\ call.status = 429
  /\ call.envelope.code = "RATE_LIMITED"

\* C29: the fetch and its timer race and the loser is cancelled: once the
\* fetch has settled on its own the timer is cleared and has not fired; once
\* the timer has fired the fetch is aborted, the timer fired once and the
\* call resolves to TIMEOUT; a call settles once.
C29_LoserCancelled ==
  /\ (call.fetches >= 1 /\ call.pc # "fetching") => call.timer \in {"cleared", "fired"}
  /\ call.timer = "cleared" => ~call.aborted /\ call.fires = 0
  /\ call.timer = "fired" =>
       /\ call.aborted /\ call.fires = 1
       /\ call.pc = "settled" =>
            call.upstream = "aborted" /\ call.envelope.code = "TIMEOUT"
  /\ call.pc = "settled" => call.settles = 1
  /\ call.pc # "settled" => call.settles = 0

\* The timer won: the fetch was aborted and ct_search resolved to TIMEOUT.
C29_Witness ==
  /\ call.tool = "ct_search" /\ call.pc = "settled"
  /\ call.timer = "fired" /\ call.envelope.code = "TIMEOUT"

\* C30: at every stage where the call waits for upstream, its response or
\* the body of its response, the timeout still stands over it: the timer is
\* armed, or has fired and aborted the call.
C30_TimeoutCoversEveryStage ==
  call.pc \in {"fetching", "reading"} => call.timer = "armed" \/ call.aborted

\* C31: an input that fails an adapter's validation (its schema, or for
\* ct_search a cursor whose payload is not JSON) is answered INVALID_INPUT
\* at once: no fetch was started and no timer armed.
C31_ValidationBeforeFetch ==
  (/\ call.pc # "idle"
   /\ \/ ~call.valid
      \/ /\ call.tool = "ct_search"
         /\ call.cursor.kind = "string" /\ call.cursor.text # <<>>
         /\ JsonParse(Utf8Decode(FromBase64(call.cursor.text))).kind
              \in {"SyntaxError", "null"}) =>
    /\ call.pc = "settled"
    /\ call.envelope.code = "INVALID_INPUT"
    /\ call.fetches = 0
    /\ call.timer = "unset" /\ call.fires = 0

\* ct_search, called a second time with a well-formed domain and limit,
\* refused a cursor whose payload is not JSON.
C31_Witness ==
  /\ call.tool = "ct_search" /\ call.pc = "settled" /\ call.calls = 2
  /\ call.valid /\ call.cursor.kind = "string" /\ call.cursor.text # <<>>
  /\ JsonParse(Utf8Decode(FromBase64(call.cursor.text))).kind = "SyntaxError"
  /\ call.envelope.code = "INVALID_INPUT"
  /\ call.fetches = 0 /\ call.timer = "unset"

\* C38: paging through ct_search from a null cursor, each next_cursor
\* handed to the next call, with limit l and an upstream list of t items
\* ends with next_cursor null after max(1, ceil(t / l)) calls; the pages in
\* order make up the upstream list and none is longer than l.
C38_PagingTerminates ==
  (/\ call.tool = "ct_search" /\ call.pc = "settled"
   /\ call.envelope.ok /\ call.cursor = JsNull) =>
    LET l == call.limit
        t == call.total
        rawData == [kind |-> "array", total |-> t, status |-> 0]
        RECURSIVE PageThrough(_, _)
        PageThrough(cursor, calls) ==
          LET decoded == DecodeCursor(cursor)
              envelope ==
                IF decoded.failed
                THEN Failure("INVALID_INPUT", "Invalid pagination cursor")
                ELSE CtParsed([offset |-> decoded.offset, limit |-> l], rawData)
          IN IF calls = 1 \/ envelope.next_cursor = JsNull
             THEN <<envelope>>
             ELSE <<envelope>> \o PageThrough(envelope.next_cursor, calls - 1)
        RECURSIVE Concat(_)
        Concat(pages) ==
          IF pages = <<>> THEN <<>> ELSE Head(pages).page \o Concat(Tail(pages))
        run == PageThrough(JsNull, t + 2)
        expected == IF t = 0 THEN 1 ELSE (t + l - 1) \div l
    IN /\ run[1] = call.envelope
       /\ Len(run) = expected
       /\ run[Len(run)].next_cursor = JsNull
       /\ \A i \in 1..Len(run) : run[i].ok /\ Len(run[i].page) <= l
       /\ Concat(run) = RawData(t)

\* The first page of a list that takes more than one call, at the largest
\* list and the smallest limit.
C38_Witness ==
  /\ call.tool = "ct_search" /\ call.pc = "settled" /\ call.envelope.ok
  /\ call.cursor = JsNull /\ call.limit = 1 /\ call.total = MaxTotal
  /\ call.envelope.next_cursor # JsNull
  /\ call.envelope.page = <<0>>

\* C39: the stateless dispatcher never answers -32603 to a tools/call that
\* lacks params, params.name or params.arguments: without a name it answers
\* -32601 and calls no adapter; with a registered name and no arguments it
\* answers a result whose envelope is ok:false with code INVALID_INPUT.
C39_AbsentMembersNeverInternalError ==
  \A k \in RpcSlots :
    (/\ rpc[k].via = "stateless" /\ rpc[k].pc = "done"
     /\ rpc[k].request.jsonrpc = "2.0"
     /\ rpc[k].request.method = "tools/call"
     /\ rpc[k].request.name = "absent" \/ rpc[k].request.arguments = "absent") =>
      /\ ~(rpc[k].sent.hasError /\ rpc[k].sent.code = 0 - 32603)
      /\ rpc[k].request.name = "absent" =>
            /\ rpc[k].sent.hasError /\ rpc[k].sent.code = 0 - 32601
            /\ rpc[k].invoked = "none" /\ rpc[k].outcome = NoOutcome
      /\ (rpc[k].request.name \in ToolNames /\ rpc[k].request.arguments = "absent") =>
            /\ ~rpc[k].sent.hasError
            /\ rpc[k].sent = Response(rpc[k].request.id,
                   ToolContent([kind |-> "err", code |-> "INVALID_INPUT"]))
            /\ rpc[k].invoked = rpc[k].request.name

\* A tools/call naming rdap_lookup without arguments was answered after its
\* adapter had settled.
C39_Witness ==
  \E k \in RpcSlots :
    /\ rpc[k].via = "stateless" /\ rpc[k].pc = "done"
    /\ rpc[k].request.method = "tools/call"
    /\ rpc[k].request.name = "rdap_lookup"
    /\ rpc[k].request.arguments = "absent"
    /\ rpc[k].outcome.code = "INVALID_INPUT"
    /\ rpc[k].status = 200

\* C35: for the same tools/call request and the same adapter outcome, the
\* stateless dispatcher and the CallTool handler of createServer invoke the
\* same adapter and agree on result or error and on the content.
C35_VariantsAgree ==
  \A k \in RpcSlots :
    (/\ rpc[k].pc = "done" /\ rpc[k].dispatched
     /\ rpc[k].request.jsonrpc = "2.0"
     /\ rpc[k].request.method = "tools/call"
     /\ rpc[k].request.id \in SdkRequestIds
     /\ rpc[k].request.name \in SdkRequestedNames) =>
      LET request == rpc[k].request
          o == rpc[k].outcome
          stateless ==
            IF DispatchNow(request) = NoResponse
            THEN ToolCallResponse(request.id, o)
            ELSE DispatchNow(request)
          sdk ==
            IF request.name \in ToolNames
            THEN SdkCallToolResult(request.id, o)
            ELSE SdkReturned(request.id, ToolContent(UnknownToolEnvelope))
      IN /\ rpc[k].sent = (IF rpc[k].via = "stateless" THEN stateless ELSE sdk)
         /\ rpc[k].invoked = AdapterFor(request.name)
         /\ stateless.hasError = sdk.hasError
         /\ stateless.result = sdk.result

\* C34: a handler suspended at "await server.connect" goes on to delegate
\* its request to the session's transport only if the session is still in
\* the table.
C34_NoUseAfterRemoval ==
  [][\A r \in Reqs :
       (req[r].pc = "connecting" /\ req'[r].pc = "handling") =>
         /\ req[r].pair \in PairsIn(sessions)
         /\ req[r].sessionId \in Keys(sessions)]_vars

\* C36: every entry of the session table is live: its transport has not
\* signalled close (neither through its close callback nor by having handled
\* a DELETE), and its creating request has connected, or is connecting, its
\* server.
C36_EveryEntryLive ==
  \A i \in 1..Len(sessions) :
    LET p == sessions[i].pair
    IN /\ p \notin closedPairs
       /\ ~\E r \in Reqs : /\ req[r].pc = "done" /\ req[r].status = 200
                           /\ req[r].method = "DELETE" /\ req[r].pair = p
       /\ req[p].created /\ req[p].pc \in {"connecting", "handling", "done"}

\* C32: the session table changes only by the insertion of a /mcp request
\* that found no session while a factory is configured, by the removal of
\* one entry by its transport's close callback, and by the removal of every
\* entry by the sweep of stop(); every other step leaves it as it is.
C32_TableChangedByThreeActions ==
  [][sessions' # sessions =>
       \/ \E r \in Reqs :
            /\ req[r].pc = "idle" /\ req'[r].pc = "connecting"
            /\ req'[r].path = "/mcp"
            /\ Lookup(sessions, req'[r].hdr) = 0
            /\ createMcpServer
            /\ sessions' = Append(sessions, [id |-> req'[r].sessionId, pair |-> r])
            /\ stops' = stops /\ closedPairs' = closedPairs
       \/ \E p \in Pairs :
            /\ onclose[p] # 0 /\ p \in closedPairs'
            /\ sessions' = MapDelete(sessions, onclose[p])
            /\ req'[p].sessionId = onclose[p]
            /\ stops' = stops
       \/ /\ stops' = stops + 1
          /\ sessions' = <<>>
          /\ req' = req /\ closedPairs' = closedPairs]_vars

\* A session was created and its close callback has emptied the table
\* again, and a GET /health was answered without touching it.
C32_Witness ==
  /\ sessions = <<>>
  /\ \E r \in Reqs : req[r].created /\ req[r].pair \in closedPairs
  /\ \E q \in Reqs : /\ req[q].path = "/health" /\ req[q].pc = "done"
                     /\ req[q].status = 200

\* C33: a /mcp request bearing the id of an active session is delegated to
\* the pair stored under that id and creates nothing, and the creating
\* request reports in mcp-session-id the id its session is stored under, so
\* a request bearing the reported id reaches the creator's pair.
C33_ReuseReachesSamePair ==
  \A r \in Reqs :
    /\ (Arrived(r) /\ req[r].found) =>
          /\ ~req[r].created /\ req[r].delta = 0
          /\ req[r].sessionId = req[r].hdr
          /\ req[req[r].pair].created
          /\ req[req[r].pair].sessionId = req[r].hdr
    /\ (req[r].created /\ req[r].pc = "done") =>
          /\ req[r].reported = req[r].sessionId
          /\ \A i \in 1..Len(sessions) :
                sessions[i].pair = r <=> sessions[i].id = req[r].reported
          /\ \A q \in Reqs :
                (Arrived(q) /\ req[q].found /\ req[q].hdr = req[r].reported) =>
                  req[q].pair = r

\* The second request bore the id the first, over and answered, had
\* reported, and was delegated to the first one's pair.
C33_Witness ==
  \E r, q \in Reqs :
    /\ req[r].created /\ req[r].pc = "done" /\ req[r].reported # NoHeader
    /\ q # r /\ req[q].found /\ req[q].pc = "done"
    /\ req[q].hdr = req[r].reported /\ req[q].pair = r
    /\ ~req[q].early

\* C37: a /mcp request whose session creation failed (the factory threw, or
\* server.connect rejected) has added nothing to the session table and has
\* been answered.
C37_FailedCreationLeavesNoTrace ==
  \A r \in Reqs :
    req[r].pc = "rejected" =>
      /\ req[r].delta = 0
      /\ req[r].writes = 1

====
